---- MODULE Spec2Model ----
(***************************************************************************)
(* A model of nvim_doc_tools: the Lua annotation grammar of parser.py (and *)
(* its older copy in apidoc.py), the LuaFunc / LuaParam / LuaField data    *)
(* model built by the parse actions, and the line scanner _parse_lines of  *)
(* apidoc.py.                                                              *)
(*                                                                         *)
(* Text is a sequence of lexemes.  Every lexeme is a string; one " " is    *)
(* one blank, "\n" is a line break, a word is one identifier.  A line is   *)
(* the sequence of its lexemes without the final line break, which         *)
(* JoinLines puts back the way "".join(lines) sees it.  Two texts are      *)
(* equal iff their lexeme sequences are equal: inputs are lexed            *)
(* canonically (no two adjacent word lexemes, "[]" always one lexeme).     *)
(***************************************************************************)
EXTENDS Integers, Sequences, FiniteSets, TLC

(***************************************************************************)
(* Lexeme classes.                                                         *)
(***************************************************************************)
\* Lexemes that start with an upper-case letter ([A-Z] in FN_RE).
CapWords == {"M", "Foo", "Type", "Bar", "Kind"}

\* Lexemes made of letters, digits and "_" that start with a letter.
AlphaWords ==
  CapWords \cup
  {"nil", "string", "integer", "boolean", "number", "table", "any", "fun",
   "private", "protected", "package", "public",
   "function", "local", "lower", "end",
   "text", "more", "desc", "user", "foo", "bar", "key", "exact", "test", "secret", "pub_name",
   "first", "second", "buffer",
   "a", "b", "c", "d", "k", "t", "u", "v", "w", "x", "y", "z"}

\* Identifiers that start with "_".
UnderscoreWords == {"_x"}

\* Word(nums) lexemes.
Nums == {"1", "12"}

\* QuotedString('"') lexemes.
Quoted == {"\"a\"", "\"b\""}

\* The two copies of the grammar: parser.py and the older one in apidoc.py.
Dialects == {"parser", "apidoc"}

\* Keyword.DEFAULT_KEYWORD_CHARS (alphanums + "_$"): a lexeme that begins and
\* ends with such a character.
IsIdentTok(t) == t \in AlphaWords \cup UnderscoreWords \cup Nums

\* \w+ of the regular expressions.
IsW(t) == t \in AlphaWords \cup UnderscoreWords \cup Nums

\* Lexemes of exactly one character, for the regular expressions that count
\* characters.
OneChar ==
  {" ", "\n", "a", "b", "c", "d", "k", "t", "u", "v", "w", "x", "y", "z", "M", "1",
   "|", "?", ".", ",", ":", "<", ">", "(", ")", "{", "}", "[", "]", "=", "#", "'"}

(***************************************************************************)
(* Parser results: pos is the index of the next unread lexeme, val the     *)
(* text matched (what the element contributes to the ParseResults).        *)
(***************************************************************************)
Ok(j, v) == [ok |-> TRUE, pos |-> j, val |-> v]

\* A ParseException inside the grammar.
Fail == [ok |-> FALSE]

\* And: the rest K of a sequence runs on the result of its first element;
\* IfMatch gives the result q when the element does not match.
IfMatch(r, K(_), q) == IF r.ok THEN K(r) ELSE q

Then(r, K(_)) == IF r.ok THEN K(r) ELSE Fail

\* MatchFirst (the "|" of pyparsing): the first alternative that matches.
Else(r, q) == IF r.ok THEN r ELSE q

\* The lexeme at i, or a sentinel past the end of the text.
At(s, i) == IF i >= 1 /\ i <= Len(s) THEN s[i] ELSE "<eof>"

RECURSIVE SkipWs(_, _)
\* ParserElement.preParse with the default whitespace " \t" set on line 288:
\* blanks are skipped, line breaks are not.
SkipWs(s, i) == IF At(s, i) = " " THEN SkipWs(s, i + 1) ELSE i

RECURSIVE WhiteEnd(_, _)
WhiteEnd(s, i) == IF At(s, i) \in {" ", "\n"} THEN WhiteEnd(s, i + 1) ELSE i

\* The lexemes from i up to, not including, j.
Span(s, i, j) == Ok(j, SubSeq(s, i, j - 1))

\* White(): one or more of " \t\r\n", line breaks included; it skips nothing.
White(s, i) == IF At(s, i) \in {" ", "\n"} THEN Span(s, i, WhiteEnd(s, i)) ELSE Fail

\* Opt(White()).
OptWhite(s, i) == Else(White(s, i), Ok(i, <<>>))

\* Literal(tok) inside Combine(adjacent=True): no whitespace skip.
LiteralHere(s, i, tok) == IF At(s, i) = tok THEN Ok(i + 1, <<tok>>) ELSE Fail

\* Literal(tok), preceded by the default whitespace skip.
Literal(s, i, tok) == LiteralHere(s, SkipWs(s, i), tok)

\* Opt(Literal(tok)): an Opt or ZeroOrMore that matches nothing still leaves
\* the position after the blanks its own whitespace skip passed.
OptLiteral(s, i, tok) == Else(Literal(s, i, tok), Ok(SkipWs(s, i), <<>>))

\* Keyword.DEFAULT_KEYWORD_CHARS around the lexeme at j.
KeywordHere(s, j, toks) ==
  IF At(s, j) \in toks /\ ~IsIdentTok(At(s, j + 1)) /\ ~IsIdentTok(At(s, j - 1))
  THEN Ok(j + 1, <<At(s, j)>>)
  ELSE Fail

\* Keyword(t1) | Keyword(t2) | ... for the lexemes of toks: the literal, not
\* preceded or followed by an identifier character.
Keyword(s, i, toks) == KeywordHere(s, SkipWs(s, i), toks)

RECURSIVE EndOfLine(_, _)
\* The index of the line break at or after i (or the end of the text).
EndOfLine(s, i) ==
  IF i > Len(s) \/ s[i] = "\n" THEN i ELSE EndOfLine(s, i + 1)

\* The rest of the line from j on.
RestOfLine(s, j) == Span(s, j, EndOfLine(s, j))

\* Regex(".+"): the rest of the line after the skipped blanks, not empty.
RegexDotPlus(s, i) ==
  IF At(s, SkipWs(s, i)) \in {"\n", "<eof>"} THEN Fail ELSE RestOfLine(s, SkipWs(s, i))

\* Regex(".*"): the rest of the line after the skipped blanks, may be empty.
RegexDotStar(s, i) == RestOfLine(s, SkipWs(s, i))

\* LineEnd without the whitespace skip.
LineEndHere(s, j) ==
  IF j > Len(s) THEN Ok(j, <<>>)
  ELSE IF s[j] = "\n" THEN Ok(j + 1, <<"\n">>)
  ELSE Fail

\* LineEnd(): skips blanks, then a line break or the end of the text.
LineEnd(s, i) == LineEndHere(s, SkipWs(s, i))

\* LineStart(): column 1, without any skip.
LineStart(s, i) == i = 1 \/ At(s, i - 1) = "\n"

(***************************************************************************)
(* The type grammar (parser.py 290-340, apidoc.py 105-143).                *)
(***************************************************************************)
\* varname inside Combine(adjacent=True).
varnameHere(g, s, i) ==
  IF At(s, i) \in AlphaWords \/ (g = "parser" /\ At(s, i) \in UnderscoreWords)
  THEN Ok(i + 1, <<At(s, i)>>)
  ELSE Fail

\* varname = Word(alphas + "_", alphanums + "_"); apidoc.py: Word(alphas, ...).
varname(g, s, i) == varnameHere(g, s, SkipWs(s, i))

RECURSIVE DottedEnd(_, _)
\* The greedy (\.[\w]+)* after the first segments of a dotted name.
DottedEnd(s, i) ==
  IF At(s, i) = "." /\ IsW(At(s, i + 1)) THEN DottedEnd(s, i + 2) ELSE i

\* The optional (\[\])? at k closes the dotted name that starts at j.
DottedTail(s, j, k) == Span(s, j, IF At(s, k) = "[]" THEN k + 1 ELSE k)

\* The dotted name at j, without the whitespace skip.
DottedHere(g, s, j) ==
  IF IsW(At(s, j)) /\ At(s, j + 1) = "." /\ IsW(At(s, j + 2))
  THEN DottedTail(s, j, IF g = "parser" THEN DottedEnd(s, j + 3) ELSE j + 3)
  ELSE Fail

\* Regex(r"\w+(\.[\w]+)+(\[\])?"); apidoc.py: Regex(r"\w+\.[\w]+(\[\])?").
DottedName(g, s, i) == DottedHere(g, s, SkipWs(s, i))

\* A lexeme of the class toks (QuotedString, Word(nums)) after the skip.
Lexeme(s, j, toks) == IF At(s, j) \in toks THEN Ok(j + 1, <<At(s, j)>>) ELSE Fail

\* primitive_type: the ordered alternation, first match wins; apidoc.py has
\* no Word(nums).
primitive_type(g, s, i) ==
  Else(Keyword(s, i, {"nil", "string", "integer", "boolean", "number", "table"}),
  Else(Lexeme(s, SkipWs(s, i), Quoted),
  Else(IF g = "parser" THEN Lexeme(s, SkipWs(s, i), Nums) ELSE Fail,
  Else(Keyword(s, i, {"any"}),
       DottedName(g, s, i)))))

\* The keyword t[] at j: the two lexemes, with the keyword boundaries.
lua_listHere(s, j) ==
  IF /\ At(s, j) \in {"string", "integer", "number", "any", "boolean", "table"}
     /\ At(s, j + 1) = "[]"
     /\ ~IsIdentTok(At(s, j + 2))
     /\ ~IsIdentTok(At(s, j - 1))
  THEN Ok(j + 2, <<At(s, j), "[]">>)
  ELSE Fail

\* lua_list: Keyword("string[]") | ... | Keyword("table[]").
lua_list(s, i) == lua_listHere(s, SkipWs(s, i))

RECURSIVE lua_type(_, _, _)

\* lua_table: Keyword("table") "<" lua_type "," Opt(White()) lua_type ">",
\* joined by the parse action.
lua_table(g, s, i) ==
  Then(Keyword(s, i, {"table"}), LAMBDA k :
  Then(Literal(s, k.pos, "<"), LAMBDA lt :
  Then(lua_type(g, s, lt.pos), LAMBDA t1 :
  Then(Literal(s, t1.pos, ","), LAMBDA c :
  Then(OptWhite(s, c.pos), LAMBDA w :
  Then(lua_type(g, s, w.pos), LAMBDA t2 :
  Then(Literal(s, t2.pos, ">"), LAMBDA gt :
    Ok(gt.pos, <<"table", "<">> \o t1.val \o <<",">> \o w.val \o t2.val \o <<">">>))))))))

\* lua_table_keyval = varname + Opt(Literal("?")) + ":" + Opt(White()) + lua_type
lua_table_keyval(g, s, i) ==
  Then(varname(g, s, i), LAMBDA n :
  Then(OptLiteral(s, n.pos, "?"), LAMBDA o :
  Then(Literal(s, o.pos, ":"), LAMBDA c :
  Then(OptWhite(s, c.pos), LAMBDA w :
  Then(lua_type(g, s, w.pos), LAMBDA t :
    Ok(t.pos, n.val \o o.val \o <<":">> \o w.val \o t.val))))))

RECURSIVE combined_list_rest(_, _, _, _)
\* The (delim + Opt(White()) + expr)[None, None] of combined_list.
combined_list_rest(g, s, i, acc) ==
  IfMatch(Then(Literal(s, i, ","), LAMBDA c :
          Then(OptWhite(s, c.pos), LAMBDA w :
          Then(lua_table_keyval(g, s, w.pos), LAMBDA e :
            Ok(e.pos, <<",">> \o w.val \o e.val)))),
          LAMBDA m : combined_list_rest(g, s, m.pos, acc \o m.val),
          Ok(i, acc))

\* combined_list(lua_table_keyval); a repetition that matches nothing leaves
\* the position after the blanks its whitespace skip passed.
combined_list(g, s, i) ==
  Then(lua_table_keyval(g, s, i), LAMBDA e :
  Then(combined_list_rest(g, s, e.pos, e.val), LAMBDA r :
    IF r.pos = e.pos THEN Ok(SkipWs(s, e.pos), e.val) ELSE r))

\* table_literal = Combine("{" + combined_list(lua_table_keyval) + "}");
\* apidoc.py has no table literal.
table_literal(g, s, i) ==
  IF g # "parser" THEN Fail
  ELSE Then(Literal(s, i, "{"), LAMBDA o :
       Then(combined_list(g, s, o.pos), LAMBDA l :
       Then(Literal(s, l.pos, "}"), LAMBDA c :
         Ok(c.pos, <<"{">> \o l.val \o <<"}">>))))

\* lua_func_param, inside delimited_list(..., combine=True): its own elements
\* skip no whitespace; apidoc.py has no Opt("?").
lua_func_param(g, s, i) ==
  Then(OptWhite(s, i), LAMBDA w1 :
  Then(Else(LiteralHere(s, w1.pos, "..."), varnameHere(g, s, w1.pos)), LAMBDA n :
  Then(Else(IF g = "parser" THEN LiteralHere(s, n.pos, "?") ELSE Fail,
            Ok(n.pos, <<>>)), LAMBDA o :
  Then(LiteralHere(s, o.pos, ":"), LAMBDA c :
  Then(OptWhite(s, c.pos), LAMBDA w2 :
  Then(lua_type(g, s, w2.pos), LAMBDA t :
  Then(OptWhite(s, t.pos), LAMBDA w3 :
    Ok(w3.pos, w1.val \o n.val \o o.val \o <<":">> \o w2.val \o t.val \o w3.val))))))))

RECURSIVE lua_func_params_rest(_, _, _, _)
\* The ("," + lua_func_param)* of the delimited list.
lua_func_params_rest(g, s, i, acc) ==
  IfMatch(Then(LiteralHere(s, i, ","), LAMBDA c :
          Then(lua_func_param(g, s, c.pos), LAMBDA p :
            Ok(p.pos, <<",">> \o p.val))),
          LAMBDA m : lua_func_params_rest(g, s, m.pos, acc \o m.val),
          Ok(i, acc))

\* Opt(delimited_list(lua_func_param, combine=True))
lua_func_params(g, s, i) ==
  IfMatch(lua_func_param(g, s, i),
          LAMBDA p : lua_func_params_rest(g, s, p.pos, p.val),
          Ok(i, <<>>))

\* The Opt(":" + Opt(White()) + lua_type) that ends lua_func, after head.
lua_func_return(g, s, i, head) ==
  Else(Then(Literal(s, i, ":"), LAMBDA cl :
       Then(OptWhite(s, cl.pos), LAMBDA w :
       Then(lua_type(g, s, w.pos), LAMBDA t :
         Ok(t.pos, head \o <<":">> \o w.val \o t.val)))),
       Ok(SkipWs(s, i), head))

\* lua_func: Keyword("fun") "(" params ")" Opt(":" Opt(White()) lua_type),
\* joined by the parse action.
lua_func(g, s, i) ==
  Then(Keyword(s, i, {"fun"}), LAMBDA k :
  Then(Literal(s, k.pos, "("), LAMBDA o :
  Then(lua_func_params(g, s, o.pos), LAMBDA ps :
  Then(Literal(s, ps.pos, ")"), LAMBDA c :
    lua_func_return(g, s, c.pos, <<"fun", "(">> \o ps.val \o <<")">>)))))

\* non_union_types = lua_list | lua_table | table_literal | lua_func | primitive_type
non_union_types(g, s, i) ==
  Else(lua_list(s, i),
  Else(lua_table(g, s, i),
  Else(table_literal(g, s, i),
  Else(lua_func(g, s, i),
       primitive_type(g, s, i)))))

RECURSIVE union_rest_spaced(_, _, _, _)
\* union_rest with the members joined by " | ".
union_rest_spaced(g, s, i, acc) ==
  IfMatch(Then(Literal(s, i, "|"), LAMBDA d : non_union_types(g, s, d.pos)),
          LAMBDA n : union_rest_spaced(g, s, n.pos, acc \o <<" ", "|", " ">> \o n.val),
          Ok(i, acc))

RECURSIVE union_rest(_, _, _, _)
\* The ("|" + non_union_types)* of delimited_list: a "|" that is not followed
\* by a type ends the list in front of the "|".
union_rest(g, s, i, acc) ==
  IfMatch(Then(Literal(s, i, "|"), LAMBDA d : non_union_types(g, s, d.pos)),
          LAMBDA n : union_rest(g, s, n.pos, acc \o <<"|">> \o n.val),
          Ok(i, acc))

\* union_type = delimited_list(non_union_types, delim="|"), joined with "|".
\* A type that no "|" member follows leaves the position after the blanks
\* the repetition's whitespace skip passed.
union_type(g, s, i) ==
  Then(non_union_types(g, s, i), LAMBDA n :
  Then(union_rest(g, s, n.pos, n.val), LAMBDA r :
    IF r.pos = n.pos THEN Ok(SkipWs(s, n.pos), n.val) ELSE r))

\* lua_type <<= union_type | non_union_types
lua_type(g, s, i) == Else(union_type(g, s, i), non_union_types(g, s, i))

(***************************************************************************)
(* The tag grammar (parser.py 342-401, apidoc.py 145-204) and the values   *)
(* its parse actions build.                                                *)
(***************************************************************************)
\* Lexemes that start with "@".
TagLexemes ==
  {"@param", "@return", "@private", "@deprecated", "@example", "@note",
   "@type", "@class", "@field", "@alias", "@opaque", "@foo"}

\* A tag matched: what it is and the value its parse action built.
TagOk(j, kind, item) == [ok |-> TRUE, pos |-> j, kind |-> kind, item |-> item]

NoItem == [ok |-> FALSE]

\* from_parser without the test for "optional".
LuaParam_keeps_type(name, optional, type, desc, subparams) ==
  [name |-> name, type |-> type, desc |-> desc, subparams |-> subparams]

\* LuaParam.from_parser: "?" after the name prefixes the type with "nil|".
LuaParam_from_parser(name, optional, type, desc, subparams) ==
  [name |-> name,
   type |-> IF optional THEN <<"nil", "|">> \o type ELSE type,
   desc |-> desc,
   subparams |-> subparams]

\* LuaReturn.from_parser: name, *desc = p.as_list()
LuaReturn_from_parser(type, desc) == [type |-> type, desc |-> desc]

\* Opt(Regex(".+").set_results_name("desc"))
OptDesc(s, i) == Else(RegexDotPlus(s, i), Ok(SkipWs(s, i), <<>>))

\* subparam: LineStart, White (line breaks included), name, "?", type,
\* description, LineEnd.
subparam(g, s, i) ==
  IF ~LineStart(s, i) THEN Fail
  ELSE Then(White(s, i), LAMBDA w :
       Then(varname(g, s, w.pos), LAMBDA n :
       Then(OptLiteral(s, n.pos, "?"), LAMBDA o :
       Then(lua_type(g, s, o.pos), LAMBDA t :
       Then(OptDesc(s, t.pos), LAMBDA d :
       Then(LineEnd(s, d.pos), LAMBDA e :
         TagOk(e.pos, "subparam",
               LuaParam_from_parser(n.val[1], o.val # <<>>, t.val, d.val, <<>>))))))))

RECURSIVE subparams(_, _, _, _)
\* ZeroOrMore(subparam).set_results_name("subparams")
subparams(g, s, i, acc) ==
  IfMatch(subparam(g, s, i),
          LAMBDA p : subparams(g, s, p.pos, Append(acc, p.item)),
          [ok |-> TRUE, pos |-> i, items |-> acc])

\* The name of tag_param: ("..." | varname) in parser.py, varname in apidoc.py.
param_name(g, s, i) ==
  Else(IF g = "parser" THEN Literal(s, i, "...") ELSE Fail, varname(g, s, i))

\* tag_param = "@param" + name + Opt("?") + lua_type + Opt(desc) + LineEnd
\* + ZeroOrMore(subparam)
tag_param(g, s, i) ==
  Then(Literal(s, i, "@param"), LAMBDA l :
  Then(param_name(g, s, l.pos), LAMBDA n :
  Then(OptLiteral(s, n.pos, "?"), LAMBDA o :
  Then(lua_type(g, s, o.pos), LAMBDA t :
  Then(OptDesc(s, t.pos), LAMBDA d :
  Then(LineEnd(s, d.pos), LAMBDA e :
  Then(subparams(g, s, e.pos, <<>>), LAMBDA sp :
    TagOk(sp.pos, "param",
          LuaParam_from_parser(n.val[1], o.val # <<>>, t.val, d.val, sp.items)))))))))

\* tag_private = Keyword("@private") + Suppress(LineEnd())
tag_private(s, i) ==
  Then(Keyword(s, i, {"@private"}), LAMBDA k :
  Then(LineEnd(s, k.pos), LAMBDA e : TagOk(e.pos, "private", NoItem)))

\* tag_deprecated = Keyword("@deprecated") + Suppress(LineEnd())
tag_deprecated(s, i) ==
  Then(Keyword(s, i, {"@deprecated"}), LAMBDA k :
  Then(LineEnd(s, k.pos), LAMBDA e : TagOk(e.pos, "deprecated", NoItem)))

\* tag_return = "@return" + lua_type + Regex(".*") + LineEnd
tag_return(g, s, i) ==
  Then(Literal(s, i, "@return"), LAMBDA l :
  Then(lua_type(g, s, l.pos), LAMBDA t :
  Then(RegexDotStar(s, t.pos), LAMBDA d :
  Then(LineEnd(s, d.pos), LAMBDA e :
    TagOk(e.pos, "return", LuaReturn_from_parser(t.val, d.val))))))

\* One line of an @example or @note body:
\* LineStart + White(max=1) + Opt(White()) + Regex(".+") + LineEnd.
body_line(s, i) ==
  IF ~(LineStart(s, i) /\ At(s, i) \in {" ", "\n"}) THEN Fail
  ELSE Then(OptWhite(s, i + 1), LAMBDA w :
       Then(RegexDotPlus(s, w.pos), LAMBDA r :
       Then(LineEnd(s, r.pos), LAMBDA e :
         Ok(e.pos, w.val \o r.val \o e.val))))

RECURSIVE body_lines(_, _, _)
\* The repetition of OneOrMore(body line), joined by the parse action.
body_lines(s, i, acc) ==
  IfMatch(body_line(s, i),
          LAMBDA b : body_lines(s, b.pos, acc \o b.val),
          Ok(i, acc))

\* tag_example and tag_note: the tag on its own line, then OneOrMore(body line).
tag_block(s, i, word, kind) ==
  Then(Literal(s, i, word), LAMBDA l :
  Then(LineEnd(s, l.pos), LAMBDA e :
  Then(body_line(s, e.pos), LAMBDA b :
  Then(body_lines(s, b.pos, b.val), LAMBDA r :
    TagOk(r.pos, kind, r.val)))))

tag_example(s, i) == tag_block(s, i, "@example", "example")

tag_note(s, i) == tag_block(s, i, "@note", "note")

\* tag <<= tag_param | tag_private | tag_return | tag_example | tag_note | tag_deprecated
tag(g, s, i) ==
  Else(tag_param(g, s, i),
  Else(tag_private(s, i),
  Else(tag_return(g, s, i),
  Else(tag_example(s, i),
  Else(tag_note(s, i),
       tag_deprecated(s, i))))))

\* The line the summary regular expression matches, which ends at k: [^@]
\* is any one character, a line break included, and ".+" at least one more
\* character of the same line.
summary_line(s, k) ==
  IF /\ Len(s) >= 1
     /\ s[1] \notin TagLexemes
     /\ (k > 2 \/ (k = 2 /\ s[1] \notin OneChar))
  THEN Then(LineEnd(s, k), LAMBDA e : Ok(e.pos, SubSeq(s, 1, k - 1)))
  ELSE Fail

\* summary = Regex(r"^[^@].+") + LineEnd.  "^" is the start of the text, so
\* no blank may be skipped in front of it.
summary(s, i) ==
  IF SkipWs(s, i) # 1 THEN Fail
  ELSE summary_line(s, IF At(s, 1) = "\n" THEN EndOfLine(s, 2) ELSE EndOfLine(s, 1))

\* The named results and the items a tag adds to the ParseResults.
AddTag(acc, t) ==
  [items      |-> IF t.kind \in {"param", "return"}
                  THEN Append(acc.items, [kind |-> t.kind, item |-> t.item])
                  ELSE acc.items,
   private    |-> acc.private \/ t.kind = "private",
   deprecated |-> acc.deprecated \/ t.kind = "deprecated",
   example    |-> IF t.kind = "example" THEN t.item ELSE acc.example,
   note       |-> IF t.kind = "note" THEN t.item ELSE acc.note]

\* The ParseResults before any tag.
NoTags ==
  [items |-> <<>>, private |-> FALSE, deprecated |-> FALSE,
   example |-> <<>>, note |-> <<>>]

RECURSIVE tags(_, _, _, _)
\* ZeroOrMore(tag)
tags(g, s, i, acc) ==
  IfMatch(tag(g, s, i),
          LAMBDA t : tags(g, s, t.pos, AddTag(acc, t)),
          [ok |-> TRUE, pos |-> i, acc |-> acc])

\* annotation = Opt(summary) + ZeroOrMore(tag) + Suppress(ZeroOrMore(White()));
\* pos is where the grammar stopped.
annotation(g, s) ==
  Then(Else(summary(s, 1), Ok(1, <<>>)), LAMBDA sm :
  Then(tags(g, s, sm.pos, NoTags), LAMBDA ts :
    [ok |-> TRUE,
     pos |-> SkipWs(s, WhiteEnd(s, SkipWs(s, ts.pos))),
     summary |-> sm.val,
     acc |-> ts.acc]))

RECURSIVE JoinLines(_)
\* "".join(line[3:] for line in lines): every line loses its "---" and keeps
\* its line break.
JoinLines(lines) ==
  IF lines = <<>> THEN <<>>
  ELSE Tail(Head(lines)) \o <<"\n">> \o JoinLines(Tail(lines))

\* The items of one kind, in order.
ItemsOfKind(S) == [k \in 1..Len(S) |-> S[k].item]

ItemsOf(items, kind) == ItemsOfKind(SelectSeq(items, LAMBDA it : it.kind = kind))

\* parseString without parseAll: text the grammar did not reach is ignored.
parsePrefix(s, p) == TRUE

\* parseString(text, parseAll=True): the whole text must be consumed.
parseAll(s, p) == p.pos > Len(s)

\* The LuaFunc that cls(name, summary=..., params=..., ...) builds.
LuaFunc(name, p) ==
  [name |-> name,
   summary |-> p.summary,
   params |-> ItemsOf(p.acc.items, "param"),
   returns |-> ItemsOf(p.acc.items, "return"),
   example |-> p.acc.example,
   note |-> p.acc.note,
   private |-> p.acc.private,
   deprecated |-> p.acc.deprecated,
   raw_annotation |-> <<>>]

\* annotation.parseString(s, parseAll=True) and the construction of the result.
parse_text(g, name, s) ==
  Then(annotation(g, s), LAMBDA p :
    IF parseAll(s, p) THEN [ok |-> TRUE, func |-> LuaFunc(name, p)] ELSE Fail)

\* LuaFunc.parse_annotation(name, lines); ok = FALSE is the ParseException
\* (apidoc.py: the Exception raised from it).
parse_annotation(g, name, lines) == parse_text(g, name, JoinLines(lines))

(***************************************************************************)
(* The field grammar (parser.py 403-431) and LuaField.                     *)
(***************************************************************************)
\* An Optional[...] value of the data model.
None == [some |-> FALSE]

Some(v) == [some |-> TRUE, val |-> v]

\* scope: Keyword("private") | Keyword("protected") | Keyword("package") |
\* Keyword("public"), mapped to the Scope member of that name.
scope(s, i) == Keyword(s, i, {"private", "protected", "package", "public"})

\* LuaField.from_parser: "?" after the name prefixes the type with "nil|".
LuaField_from_parser(name, key_type, optional, type, desc, scp) ==
  [name |-> name,
   type |-> IF optional THEN <<"nil", "|">> \o type ELSE type,
   key_type |-> key_type,
   desc |-> desc,
   scope |-> scp]

\* The indexed form: "[" key type "]" type description.
field_indexed(g, s, i) ==
  Then(Literal(s, i, "["), LAMBDA o :
  Then(lua_type(g, s, o.pos), LAMBDA k :
  Then(Literal(s, k.pos, "]"), LAMBDA c :
  Then(lua_type(g, s, c.pos), LAMBDA t :
  Then(RegexDotStar(s, t.pos), LAMBDA d :
    TagOk(d.pos, "field",
          LuaField_from_parser(None, Some(k.val), FALSE, t.val, d.val, None)))))))

\* The named form after an optional scope: name "?" type description.
field_named(g, s, i, scp) ==
  Then(varname(g, s, i), LAMBDA n :
  Then(OptLiteral(s, n.pos, "?"), LAMBDA o :
  Then(lua_type(g, s, o.pos), LAMBDA t :
  Then(RegexDotStar(s, t.pos), LAMBDA d :
    TagOk(d.pos, "field",
          LuaField_from_parser(Some(n.val[1]), None, o.val # <<>>, t.val, d.val, scp))))))

\* The scoped form: scope name "?" type description.
field_scoped(g, s, i) ==
  Then(scope(s, i), LAMBDA c : field_named(g, s, c.pos, Some(c.val[1])))

\* lua_field with the plain form tried before the scoped form.
lua_field_plain_first(g, s, i) ==
  Then(Literal(s, i, "@field"), LAMBDA l :
  Then(Else(field_indexed(g, s, l.pos),
       Else(field_named(g, s, l.pos, None),
            field_scoped(g, s, l.pos))), LAMBDA f :
  Then(LineEnd(s, f.pos), LAMBDA e : TagOk(e.pos, "field", f.item))))

\* lua_field = "@field" + (indexed | scoped | plain) + LineEnd
lua_field(g, s, i) ==
  Then(Literal(s, i, "@field"), LAMBDA l :
  Then(Else(field_indexed(g, s, l.pos),
       Else(field_scoped(g, s, l.pos),
            field_named(g, s, l.pos, None))), LAMBDA f :
  Then(LineEnd(s, f.pos), LAMBDA e : TagOk(e.pos, "field", f.item))))

\* lua_field.parseString(text, parseAll=True)[0], as the tests call it.
parse_field(s) ==
  Then(lua_field("parser", s, 1), LAMBDA f :
    IF SkipWs(s, f.pos) > Len(s) THEN [ok |-> TRUE, field |-> f.item] ELSE Fail)

(***************************************************************************)
(* The class grammar (parser.py 433-441), LuaClass and LuaAlias.           *)
(***************************************************************************)
RECURSIVE RunEnd(_, _, _)
\* The end of the run of characters outside stop that starts at i.
RunEnd(s, i, stop) ==
  IF At(s, i) \in stop \cup {"<eof>"} THEN i ELSE RunEnd(s, i + 1, stop)

\* A regular expression [^...]+ from j on: the run up to e, not empty.
RunFrom(s, j, e) == IF e = j THEN Fail ELSE Span(s, j, e)

\* Regex(r"[^\s:]+") and Regex(r"\S+") after the skipped blanks.
RegexRun(s, i, stop) == RunFrom(s, SkipWs(s, i), RunEnd(s, SkipWs(s, i), stop))

\* Suppress(Opt("(exact)"))
class_exact(s, j) ==
  IF At(s, j) = "(" /\ At(s, j + 1) = "exact" /\ At(s, j + 2) = ")"
  THEN Ok(j + 3, <<>>)
  ELSE Ok(j, <<>>)

\* Opt(Suppress(":") + Regex(r"\S+").set_results_name("parent"))
class_parent(s, i) ==
  IfMatch(Literal(s, i, ":"),
          LAMBDA c : IfMatch(RegexRun(s, c.pos, {" ", "\n"}),
                             LAMBDA p : Ok(p.pos, Some(p.val)),
                             Ok(SkipWs(s, i), None)),
          Ok(SkipWs(s, i), None))

\* Opt(Keyword("@opaque") + Suppress(LineEnd())).set_results_name("opaque");
\* val is the truth value of the named result.
class_opaque(s, i) ==
  IfMatch(Keyword(s, i, {"@opaque"}),
          LAMBDA k : IfMatch(LineEnd(s, k.pos),
                             LAMBDA e : Ok(e.pos, TRUE),
                             Ok(SkipWs(s, i), FALSE)),
          Ok(SkipWs(s, i), FALSE))

RECURSIVE class_fields(_, _, _)
\* The repetition of OneOrMore(lua_field) after the fields of acc.
class_fields(s, i, acc) ==
  IfMatch(lua_field("parser", s, i),
          LAMBDA f : class_fields(s, f.pos, Append(acc, f.item)),
          Ok(i, acc))

\* The field list as a repetition that may be empty.
class_field_list_or_none(s, i) == class_fields(s, i, <<>>)

\* OneOrMore(lua_field).set_results_name("fields")
class_field_list(s, i) ==
  Then(class_fields(s, i, <<>>), LAMBDA fs : IF fs.val = <<>> THEN Fail ELSE fs)

\* LuaClass.from_parser: cls(name, desc, opaque=..., parent=..., fields=...)
LuaClass_from_parser(name, desc, opaque, parent, fields) ==
  [name |-> name, desc |-> desc, opaque |-> opaque, parent |-> parent,
   fields |-> fields]

\* lua_class = "@class" + Opt("(exact)") + name + Opt(":" + parent) + LineEnd
\*             + Opt("@opaque" + LineEnd) + OneOrMore(lua_field)
lua_class(s, desc) ==
  Then(Literal(s, 1, "@class"), LAMBDA c :
  Then(class_exact(s, SkipWs(s, c.pos)), LAMBDA x :
  Then(RegexRun(s, x.pos, {" ", "\n", ":"}), LAMBDA n :
  Then(class_parent(s, n.pos), LAMBDA p :
  Then(LineEnd(s, p.pos), LAMBDA e :
  Then(class_opaque(s, e.pos), LAMBDA o :
  Then(class_field_list(s, o.pos), LAMBDA fs :
    IF parseAll(s, [pos |-> SkipWs(s, fs.pos)])
    THEN [ok |-> TRUE,
          class |-> LuaClass_from_parser(n.val, desc, o.val, p.val, fs.val)]
    ELSE Fail)))))))

\* line[3:].startswith("@")
StartsWithAt(l) == At(l, 2) \in TagLexemes

RECURSIVE DescEnd(_, _)
\* while lines and not lines[0].startswith("@"): desc_lines.append(lines.pop(0))
DescEnd(lines, k) ==
  IF k <= Len(lines) /\ ~StartsWithAt(lines[k]) THEN DescEnd(lines, k + 1) ELSE k

\* The two halves of the block: the description lines and the lines from
\* the first "@" line on.
ClassOfLines(lines, k) ==
  lua_class(JoinLines(SubSeq(lines, k, Len(lines))), JoinLines(SubSeq(lines, 1, k - 1)))

\* LuaClass.parse_lines(lines); ok = FALSE is the ParseException.
LuaClass_parse_lines(lines) == ClassOfLines(lines, DescEnd(lines, 1))

\* The second word of line.split(), when there is one.
SecondWord(l, c, d) == IF d > c THEN Some(SubSeq(l, c, d - 1)) ELSE None

\* The word after the word that ends at b.
WordAfter(l, b) ==
  SecondWord(l, WhiteEnd(l, b), RunEnd(l, WhiteEnd(l, b), {" ", "\n"}))

\* line.split()[1]: words are the runs between blanks.
SplitSecond(l) == WordAfter(l, RunEnd(l, WhiteEnd(l, 1), {" ", "\n"}))

\* AliasValue(match.group(1), match.group(2) or "")
AliasValue(value, desc) == [value |-> value, desc |-> desc]

\* The tail of ALIAS_VAL_RE after the closing quote at q: (?: # (.+))?$
AliasTail(l, q) ==
  IF q = Len(l) THEN Some(<<>>)
  ELSE IF At(l, q + 1) = " " /\ At(l, q + 2) = "#" /\ At(l, q + 3) = " " /\ Len(l) >= q + 4
  THEN Some(SubSeq(l, q + 4, Len(l)))
  ELSE None

\* The value and description of a match whose closing quote is at q.
AliasMatch(l, q, tl) ==
  IF At(l, q) = "'" /\ q > 4 /\ tl.some
  THEN Some(AliasValue(SubSeq(l, 4, q - 1), tl.val))
  ELSE None

\* ALIAS_VAL_RE = ^\| '([^']+)'(?: # (.+))?$ matched on a line without its
\* "---".
ALIAS_VAL_RE(l) ==
  IF At(l, 1) = "|" /\ At(l, 2) = " " /\ At(l, 3) = "'"
  THEN AliasMatch(l, RunEnd(l, 4, {"'"}), AliasTail(l, RunEnd(l, 4, {"'"})))
  ELSE None

RECURSIVE AliasValues(_, _, _)
\* The loop over the value lines: None at the first line that does not
\* match, the values of all lines otherwise.
AliasValues(lines, k, acc) ==
  IF k > Len(lines) THEN Some(acc)
  ELSE IF ALIAS_VAL_RE(Tail(lines[k])).some
  THEN AliasValues(lines, k + 1, Append(acc, ALIAS_VAL_RE(Tail(lines[k])).val))
  ELSE None

\* The end of LuaAlias.parse_lines: no alias without values.
AliasOrNone(name, vals) ==
  IF vals.some /\ vals.val # <<>>
  THEN [raised |-> FALSE, alias |-> Some([name |-> name, values |-> vals.val])]
  ELSE [raised |-> FALSE, alias |-> None]

\* LuaAlias.parse_lines(lines): lines.pop(0) raises on an empty block and
\* split()[1] on a first line of fewer than two words.
LuaAlias_parse_lines(lines) ==
  IF lines = <<>> \/ ~SplitSecond(Tail(lines[1])).some
  THEN [raised |-> TRUE]
  ELSE AliasOrNone(SplitSecond(Tail(lines[1])).val, AliasValues(lines, 2, <<>>))

(***************************************************************************)
(* The symbol table: LuaTypes, LuaFile and the look-ups by name            *)
(* (parser.py 32-63, 106-119, 187-189, 255-269).                           *)
(***************************************************************************)
\* LuaFile(functions=..., classes=..., aliases=...)
LuaFile(functions, classes, aliases) ==
  [functions |-> functions, classes |-> classes, aliases |-> aliases]

\* A dict without keys.
EmptyDict == [n \in {} |-> n]

\* LuaTypes(): the three dicts start empty.
LuaTypes == [files |-> EmptyDict, classes |-> EmptyDict, aliases |-> EmptyDict]

\* d[key] = value
DictSet(d, key, value) ==
  [n \in DOMAIN d \cup {key} |-> IF n = key THEN value ELSE d[n]]

\* An index that keeps the entry it already has for the name.
IndexFirstWins(index, items) ==
  [n \in DOMAIN index \cup {items[k].name : k \in DOMAIN items} |->
     IF n \in DOMAIN index THEN index[n]
     ELSE items[CHOOSE k \in DOMAIN items :
                  items[k].name = n /\ \A j \in 1..(k - 1) : items[j].name # n]]

\* An index that holds the entries of the last file only.
IndexLastFileOnly(index, items) ==
  [n \in {items[k].name : k \in DOMAIN items} |->
     items[CHOOSE k \in DOMAIN items :
             items[k].name = n /\ \A j \in (k + 1)..Len(items) : items[j].name # n]]

RECURSIVE IndexByName(_, _)
\* for c in items: index[c.name] = c
IndexByName(index, items) ==
  IF items = <<>> THEN index
  ELSE IndexByName(DictSet(index, Head(items).name, Head(items)), Tail(items))

\* LuaTypes.add_file(filename, file)
add_file(types, filename, file) ==
  [files |-> DictSet(types.files, filename, file),
   classes |-> IndexByName(types.classes, file.classes),
   aliases |-> IndexByName(types.aliases, file.aliases)]

\* search_type[4:] if search_type.startswith("nil|") else search_type
StripNil(type) ==
  IF Len(type) >= 2 /\ type[1] = "nil" /\ type[2] = "|"
  THEN SubSeq(type, 3, Len(type))
  ELSE type

\* A look-up that takes the type as it is written.
get_enum_values_unstripped(types, search_type) ==
  IF search_type \in DOMAIN types.aliases
  THEN types.aliases[search_type].values
  ELSE <<>>

\* LuaTypes.get_enum_values(search_type)
get_enum_values(types, search_type) ==
  IF StripNil(search_type) \in DOMAIN types.aliases
  THEN types.aliases[StripNil(search_type)].values
  ELSE <<>>

\* LuaField.is_public
is_public(fld) == ~fld.scope.some \/ fld.scope.val = "public"

\* LuaParam(fld.name, fld.type, desc=fld.desc) for each field of flds.
FieldParams(flds) ==
  [k \in DOMAIN flds |->
     [name |-> flds[k].name.val, type |-> flds[k].type, desc |-> flds[k].desc,
      subparams |-> <<>>]]

\* A conversion that takes every named field, whatever its scope.
convert_all_named(class) ==
  IF class.opaque THEN <<>>
  ELSE FieldParams(SelectSeq(class.fields, LAMBDA fld : fld.name.some))

\* LuaClass.convert_to_subparams()
convert_to_subparams(class) ==
  IF class.opaque THEN <<>>
  ELSE FieldParams(SelectSeq(class.fields, LAMBDA fld : fld.name.some /\ is_public(fld)))

\* The second half of get_subparams: the look-up of the class.
ClassSubparams(types, search_type) ==
  IF search_type \in DOMAIN types.classes
  THEN convert_to_subparams(types.classes[search_type])
  ELSE <<>>

\* A get_subparams that appends the fields of the class to the explicit
\* sub-parameters.
get_subparams_merged(param, types) ==
  param.subparams \o ClassSubparams(types, StripNil(param.type))

\* LuaParam.get_subparams(types)
get_subparams(param, types) ==
  IF param.subparams # <<>> THEN param.subparams
  ELSE ClassSubparams(types, StripNil(param.type))

(***************************************************************************)
(* The scanner of apidoc.py: FN_RE and _parse_lines.                       *)
(***************************************************************************)
\* End of the run [A-Za-z0-9_:\.]* starting at i.
RECURSIVE FnNameEnd(_, _)
FnNameEnd(l, i) ==
  IF IsW(At(l, i)) \/ At(l, i) \in {":", "."} THEN FnNameEnd(l, i + 1) ELSE i

\* FN_RE = ^M\.(\w+)\s*=|^function ([A-Z][A-Za-z0-9_:\.]*)\s*\(
\* matched at the start of the line; name is m[1] or m[2].
FN_RE(l) ==
  IF /\ At(l, 1) = "M" /\ At(l, 2) = "." /\ IsW(At(l, 3))
     /\ At(l, WhiteEnd(l, 4)) = "="
  THEN [ok |-> TRUE, name |-> <<l[3]>>]
  ELSE IF /\ At(l, 1) = "function" /\ At(l, 2) = " " /\ At(l, 3) \in CapWords
          /\ At(l, WhiteEnd(l, FnNameEnd(l, 4))) = "("
  THEN [ok |-> TRUE, name |-> SubSeq(l, 3, FnNameEnd(l, 4) - 1)]
  ELSE [ok |-> FALSE]

\* line.startswith("---")
IsDocLine(l) == At(l, 1) = "---"

\* any([c.startswith("---@type") for c in chunk])
HasTypeTag(c) == \E k \in DOMAIN c : At(c[k], 1) = "---" /\ At(c[k], 2) = "@type"

\* The lines a scanned file is made of.
ScanLines ==
  { <<"---", "text">>,
    <<"---", "@param", " ", "x", " ", "string">>,
    <<"---", "@param", " ", "x", " ", "foo">>,
    <<"---", "@private">>,
    <<"---", "@type", " ", "string">>,
    <<"---", "@class", " ", "Foo">>,
    <<"---", "@field", " ", "x", " ", "string">>,
    <<"M", ".", "foo", " ", "=", " ", "function", "(", ")">>,
    <<"function", " ", "Foo", ".", "bar", "(", ")">>,
    <<"local", " ", "x", " ", "=", " ", "1">>,
    <<>> }

\* Longest file the scanner is run on.
MaxLines == 4

(***************************************************************************)
(* The inputs of the grammar entry points: annotation blocks for           *)
(* LuaFunc.parse_annotation and single lines for lua_field.                *)
(***************************************************************************)
\* The text of a name, "?" when optional, a type and a description.
Entry(name, opt, type, desc) ==
  <<name>> \o (IF opt THEN <<"?">> ELSE <<>>) \o <<" ">> \o type \o desc

\* The @param lines written in the blocks: name, "?", type, description.
ParamSpecs ==
  { [name |-> "x", opt |-> FALSE, type |-> <<"string">>, desc |-> <<>>],
    [name |-> "y", opt |-> TRUE, type |-> <<"integer">>, desc |-> <<" ", "desc">>],
    [name |-> "t", opt |-> FALSE, type |-> <<"table">>, desc |-> <<>>],
    [name |-> "z", opt |-> TRUE, type |-> <<"nil", "|", "string">>, desc |-> <<>>] }

ParamLine(p) == <<"---", "@param", " ">> \o Entry(p.name, p.opt, p.type, p.desc)

\* The lines shaped like a sub-parameter: two of them indented, one not.
SubSpecs ==
  { [name |-> "a", opt |-> FALSE, type |-> <<"string">>, desc |-> <<>>,
     indent |-> <<" ", " ">>],
    [name |-> "b", opt |-> TRUE, type |-> <<"integer", "[]">>, desc |-> <<" ", "d">>,
     indent |-> <<" ", " ">>],
    [name |-> "c", opt |-> FALSE, type |-> <<"string">>, desc |-> <<>>,
     indent |-> <<>>] }

SubLine(p) == <<"---">> \o p.indent \o Entry(p.name, p.opt, p.type, p.desc)

\* The other doc lines: blank, summary text, the flags, @return, the block
\* tags, an unknown tag, a type that is no type, and unions with a member
\* that is no type.
OtherLines ==
  { <<"---">>,
    <<"---", "text">>,
    <<"---", "@private">>,
    <<"---", "@deprecated">>,
    <<"---", "@return", " ", "string">>,
    <<"---", "@return", " ", "user", ".", "Type", " ", "desc">>,
    <<"---", "@example">>,
    <<"---", "@note">>,
    <<"---", "@foo">>,
    <<"---", "@param", " ", "w", " ", "foo">>,
    <<"---", "@param", " ", "u", " ", "string", "|", "foo">>,
    <<"---", "@param", " ", "v", " ", "nil", "|">>,
    <<"---", "@return", " ", "string", "|", "foo">> }

AnnLines ==
  {ParamLine(p) : p \in ParamSpecs} \cup {SubLine(p) : p \in SubSpecs} \cup OtherLines

\* Longest block handed to LuaFunc.parse_annotation.
MaxBlock == 3

Blocks == UNION {[1..n -> AnnLines] : n \in 0..MaxBlock}

\* The @field lines handed to lua_field: scope, name, "?", type, description.
FieldScopes == {"private", "protected", "package", "public"}

FieldSpecs ==
  [scope : {None} \cup {Some(c) : c \in FieldScopes},
   name : {"x", "key"},
   opt : BOOLEAN,
   type : {<<"string">>, <<"nil", "|", "string">>, <<"user", ".", "Type">>},
   desc : {<<>>, <<" ", "desc">>}]

FieldLine(f) ==
  <<"@field", " ">> \o (IF f.scope.some THEN <<f.scope.val, " ">> ELSE <<>>)
    \o Entry(f.name, f.opt, f.type, f.desc)

\* The indexed form has no name and no "?".
IndexedFieldLines ==
  { <<"@field", " ", "[", "string", "]", " ", "integer", " ", "desc">>,
    <<"@field", " ", "[", "integer", "]", " ", "nil", "|", "string">> }

\* The members of a list.
Range(f) == {f[k] : k \in DOMAIN f}

\* A doc line with the given text.
Doc(text) == <<"---">> \o text

\* "---@class Name" or "---@class Name: Parent"
ClassLine(name, parent) ==
  <<"---", "@class", " ">> \o name
    \o (IF parent.some THEN <<":", " ">> \o parent.val ELSE <<>>)

\* "---@alias Name"
AliasLine(name) == <<"---", "@alias", " ">> \o name

\* "---| 'value'" or "---| 'value' # description"
ValueLine(value, desc) ==
  <<"---", "|", " ", "'", value, "'">>
    \o (IF desc = <<>> THEN <<>> ELSE <<" ", "#", " ">> \o desc)

\* Field lines whose first word is the name of a scope.
ScopeWordFieldLines ==
  { <<"@field", " ", "private", " ", "string">>,
    <<"@field", " ", "package", " ", "string", " ", "any">>,
    <<"@field", " ", "public", " ", "integer", " ", "desc">> }

\* Dotted identifiers: user types, and names whose first segment is one of
\* the keywords of primitive_type.
DottedTexts ==
  { <<"user", ".", "Type">>, <<"a", ".", "b", ".", "c">>, <<"test", ".", "table">>,
    <<"table", ".", "Foo">>, <<"string", ".", "buffer">>, <<"nil", ".", "x">>,
    <<"integer", ".", "x">>, <<"boolean", ".", "b">>, <<"number", ".", "x", ".", "y">>,
    <<"any", ".", "text">> }

\* Field lines typed by a dotted identifier, with and without description.
DottedFieldLines ==
  {<<"@field", " ", "x", " ">> \o t \o d : t \in DottedTexts, d \in {<<>>, <<" ", "desc">>}}

FieldLines ==
  {FieldLine(f) : f \in FieldSpecs} \cup IndexedFieldLines \cup ScopeWordFieldLines
    \cup DottedFieldLines

\* Type expressions: the primitives and the closed list forms.
TypeAtoms ==
  { <<"nil">>, <<"string">>, <<"table">>, <<"any">>, <<"\"a\"">>, <<"12">>,
    <<"user", ".", "Type">>, <<"user", ".", "Type", "[]">>, <<"string", "[]">>,
    <<"table", "[]">> }

\* The types written inside the compound forms.
SmallTypes == { <<"string">>, <<"nil">>, <<"user", ".", "Type">>, <<"\"a\"">> }

\* No blank or one blank.
Blank == {<<>>, <<" ">>}

\* table<K,V> and table<K, V>
TableText(k, w, v) == <<"table", "<">> \o k \o <<",">> \o w \o v \o <<">">>

\* {x: T} and {x:T, y?: T}
LiteralText(w, a) == <<"{", "x", ":">> \o w \o a \o <<"}">>

LiteralText2(w, a, b) ==
  <<"{", "x", ":">> \o w \o a \o <<",">> \o w \o <<"y", "?", ":", " ">> \o b \o <<"}">>

\* fun(x: T), fun(x: T, ...: T) and the same with a return type.
FunText(a) == <<"fun", "(", "x", ":", " ">> \o a \o <<")">>

FunText2(w, a, b) ==
  <<"fun", "(", "x", "?", ":">> \o w \o a \o <<",", " ", "...", ":", " ">> \o b \o <<")">>

WithReturn(f, w, r) == f \o <<":">> \o w \o r

CompoundTypes ==
  {TableText(k, w, v) : k \in SmallTypes, w \in Blank, v \in SmallTypes}
    \cup {LiteralText(w, a) : w \in Blank, a \in SmallTypes}
    \cup {LiteralText2(w, a, b) : w \in Blank, a \in SmallTypes, b \in {<<"string">>, <<"nil">>}}
    \cup {<<"fun", "(", ")">>}
    \cup {FunText(a) : a \in SmallTypes}
    \cup {FunText2(w, a, b) : w \in Blank, a \in SmallTypes, b \in {<<"string">>, <<"any">>}}
    \cup {WithReturn(<<"fun", "(", ")">>, w, r) : w \in Blank, r \in SmallTypes}
    \cup {WithReturn(FunText(a), <<" ">>, r) : a \in SmallTypes, r \in SmallTypes}

\* The members the unions are written with.
MemberTypes ==
  TypeAtoms \cup
  { TableText(<<"string">>, <<" ">>, <<"nil">>), LiteralText(<<" ">>, <<"string">>),
    <<"fun", "(", ")">>, FunText(<<"string">>) }

\* The ways a "|" is written between two members.
Bars == {<<"|">>, <<" ", "|", " ">>}

UnionSpecs == [a : MemberTypes, bar : Bars, b : MemberTypes]

UnionText(u) == u.a \o u.bar \o u.b

\* Unions of three members, and compound types written with a union inside.
UnionText3(a, b, c) == a \o <<"|">> \o b \o <<" ", "|">> \o c

NestedTypes ==
  {UnionText3(a, b, c) : a \in SmallTypes, b \in SmallTypes, c \in SmallTypes}
    \cup {TableText(a \o <<"|">> \o b, <<" ">>, b \o <<"|">> \o a) : a \in SmallTypes, b \in SmallTypes}
    \cup {WithReturn(FunText(a \o <<"|">> \o b), <<" ">>, a \o <<" ", "|", " ">> \o b) :
            a \in SmallTypes, b \in SmallTypes}
    \cup {LiteralText(<<" ">>, TableText(a, <<>>, FunText(b))) : a \in SmallTypes, b \in SmallTypes}

\* Texts that are no type, or a type followed by something else.
OtherTypeTexts ==
  { <<"foo">>, <<"string", "|">>, <<"string", "|", "foo">>, <<"string", " ", "desc">>,
    <<"table", "<", "string", ">">>, <<"fun", "(", "x", ")">>, <<"|", "nil">> }

\* The texts handed to lua_type.
TypeTexts ==
  TypeAtoms \cup DottedTexts \cup CompoundTypes \cup {UnionText(u) : u \in UnionSpecs}
    \cup NestedTypes \cup OtherTypeTexts

\* The first lines of the class blocks.
ClassHeads ==
  [name : {<<"test", ".", "Foo">>, <<"Bar">>},
   parent : {None, Some(<<"test", ".", "Bar">>)}]

\* The @field lines of the class blocks.
ClassFieldSpecs ==
  { [scope |-> None, name |-> "x", opt |-> FALSE, type |-> <<"string">>, desc |-> <<>>],
    [scope |-> Some("private"), name |-> "key", opt |-> FALSE, type |-> <<"integer">>,
     desc |-> <<" ", "desc">>],
    [scope |-> Some("protected"), name |-> "y", opt |-> TRUE,
     type |-> <<"nil", "|", "string">>, desc |-> <<>>],
    [scope |-> Some("public"), name |-> "z", opt |-> FALSE,
     type |-> <<"user", ".", "Type">>, desc |-> <<>>] }

\* The other lines of the class blocks: @opaque, a map-style field, a field
\* whose type is no type, the (exact) form, a blank line and free text.
OtherClassLines ==
  { <<"---", "@opaque">>,
    <<"---", "@field", " ", "[", "string", "]", " ", "integer", " ", "d">>,
    <<"---", "@field", " ", "x", " ", "foo">>,
    <<"---", "@class", " ", "(", "exact", ")", " ", "Foo">>,
    <<"---">>,
    <<"---", "text">> }

ClassLines ==
  {ClassLine(h.name, h.parent) : h \in ClassHeads}
    \cup {Doc(FieldLine(f)) : f \in ClassFieldSpecs}
    \cup OtherClassLines

\* The blocks handed to LuaClass.parse_lines.
ClassBlocks == UNION {[1..n -> ClassLines] : n \in 1..MaxBlock}

\* The first lines of the alias blocks: with a name, with a name and a
\* further word, and without a name.
AliasHeads ==
  { AliasLine(<<"test", ".", "Kind">>),
    AliasLine(<<"Kind", " ", "string">>),
    <<"---", "@alias">> }

\* The lines that match ALIAS_VAL_RE.
ValueLines == {ValueLine("a", <<"first">>), ValueLine("b", <<>>), ValueLine("a", <<"x", " ", "#", " ", "y">>)}

\* Lines that do not match it: no quotes, "#" without description, no
\* blank after "|", a blank line, free text.
NoValueLines ==
  { <<"---", "|", " ", "b">>,
    <<"---", "|", " ", "'", "a", "'", " ", "#">>,
    <<"---", "|", "'", "a", "'">>,
    <<"---">>,
    <<"---", "text">> }

\* The blocks handed to LuaAlias.parse_lines: an @alias line and the lines
\* after it.
AliasBlocks ==
  {<<h>> \o rest : h \in AliasHeads,
                   rest \in UNION {[1..n -> ValueLines \cup NoValueLines] : n \in 0..(MaxBlock - 1)}}


(***************************************************************************)
(* The inputs of the symbol table: class and alias blocks, the files that  *)
(* declare them and the functions whose parameters are looked up.          *)
(***************************************************************************)
\* "---@field ..." for a field written as in FieldSpecs.
FieldDoc(scp, name, opt, type, desc) ==
  Doc(FieldLine([scope |-> scp, name |-> name, opt |-> opt, type |-> type, desc |-> desc]))

\* test.Foo with fields of every scope, a map-style field and an optional one.
FooBlock ==
  << ClassLine(<<"test", ".", "Foo">>, None),
     FieldDoc(Some("private"), "secret", FALSE, <<"string">>, <<>>),
     FieldDoc(None, "pub_name", FALSE, <<"integer">>, <<>>),
     <<"---", "@field", " ", "[", "string", "]", " ", "integer", " ", "d">>,
     FieldDoc(Some("public"), "x", TRUE, <<"string">>, <<" ", "desc">>),
     FieldDoc(Some("protected"), "y", FALSE, <<"string">>, <<>>),
     FieldDoc(Some("package"), "z", FALSE, <<"string">>, <<>>) >>

\* A second declaration of test.Foo.
FooAgainBlock ==
  << ClassLine(<<"test", ".", "Foo">>, Some(<<"test", ".", "Bar">>)),
     FieldDoc(None, "a", FALSE, <<"string">>, <<>>) >>

\* An opaque class.
BarBlock ==
  << ClassLine(<<"test", ".", "Bar">>, None),
     <<"---", "@opaque">>,
     FieldDoc(None, "b", FALSE, <<"string">>, <<>>) >>

UserTypeBlock ==
  << ClassLine(<<"user", ".", "Type">>, None),
     FieldDoc(None, "c", FALSE, <<"nil", "|", "string">>, <<" ", "d">>) >>

\* test.Kind, one value with a description and one without.
KindBlock ==
  << AliasLine(<<"test", ".", "Kind">>),
     ValueLine("a", <<"first">>),
     ValueLine("b", <<>>) >>

\* A second declaration of test.Kind.
KindAgainBlock ==
  << AliasLine(<<"test", ".", "Kind">>), ValueLine("b", <<"second">>) >>

\* An alias whose name starts with nil|.
NilKindBlock ==
  << AliasLine(<<"nil", "|", "test", ".", "Kind">>), ValueLine("c", <<>>) >>

\* Functions with parameters typed by the classes and the alias.
UseBlock ==
  << <<"---", "@param", " ", "x", " ", "test", ".", "Foo">>,
     <<"---", "@param", " ", "y", "?", " ", "test", ".", "Foo", " ", "d">>,
     <<"---", "@param", " ", "z", "?", " ", "nil", "|", "test", ".", "Foo">>,
     <<"---", "@param", " ", "t", " ", "test", ".", "Foo">>,
     <<"---", " ", " ", "a", " ", "string">>,
     <<"---", "@param", " ", "b", "?", " ", "test", ".", "Bar">> >>

UseMoreBlock ==
  << <<"---", "@param", " ", "k", " ", "test", ".", "Kind">>,
     <<"---", "@param", " ", "c", "?", " ", "test", ".", "Kind">>,
     <<"---", "@param", " ", "d", "?", " ", "nil", "|", "test", ".", "Kind">>,
     <<"---", "@param", " ", "u", " ", "user", ".", "Type">>,
     <<"---", "@param", " ", "t", " ", "table">>,
     <<"---", " ", " ", "a", " ", "string">>,
     <<"---", "@param", " ", "x", " ", "string">> >>

\* The class a block declares.
ClassOf(block) == LuaClass_parse_lines(block).class

\* The alias a block declares.
AliasOf(block) == LuaAlias_parse_lines(block).alias.val

\* The function a block documents.
FuncOf(name, block) == parse_annotation("parser", <<name>>, block).func

\* The files handed to add_file.
TypeFiles ==
  { LuaFile(<<>>, <<ClassOf(FooBlock)>>, <<AliasOf(KindBlock)>>),
    LuaFile(<<>>, <<ClassOf(FooAgainBlock), ClassOf(BarBlock)>>, <<AliasOf(KindAgainBlock)>>),
    LuaFile(<<>>, <<ClassOf(FooBlock), ClassOf(FooAgainBlock)>>,
            <<AliasOf(KindAgainBlock), AliasOf(KindBlock)>>),
    LuaFile(<<FuncOf("use", UseBlock), FuncOf("more", UseMoreBlock)>>,
            <<ClassOf(UserTypeBlock)>>, <<AliasOf(NilKindBlock)>>) }

TypePaths == {"a.lua", "b.lua"}

\* The parameters of the functions of the files.
QueryParams ==
  UNION {UNION {Range(file.functions[k].params) : k \in DOMAIN file.functions} :
           file \in TypeFiles}

\* The types get_enum_values is asked for: those of the parameters.
QueryTypes == {param.type : param \in QueryParams}

\* Most calls of add_file on one symbol table.
MaxAdds == 3

(***************************************************************************)
(* replace_section (util.py 51-79): a file is the text on disk, its lines  *)
(* end with "\n"; the patterns are literal texts, which re.match finds at  *)
(* the start of a line.                                                    *)
(***************************************************************************)
RECURSIVE IsPrefix(_, _)
\* pat is the start of line.
IsPrefix(pat, line) ==
  IF pat = <<>> THEN TRUE
  ELSE IF line = <<>> THEN FALSE
  ELSE Head(pat) = Head(line) /\ IsPrefix(Tail(pat), Tail(line))

\* re.match(pat, line) for a literal pattern
re_match(pat, line) == IsPrefix(pat, line)

RECURSIVE join(_)
\* "".join(all_lines)
join(all_lines) ==
  IF all_lines = <<>> THEN <<>> ELSE Head(all_lines) \o join(Tail(all_lines))

RECURSIVE readlines(_, _, _)
\* for line in ifile: the lines of text, each with its "\n"; cur is the line
\* being read and acc the lines before it.
readlines(text, cur, acc) ==
  IF text = <<>> THEN (IF cur = <<>> THEN acc ELSE Append(acc, cur))
  ELSE IF Head(text) = "\n" THEN readlines(Tail(text), <<>>, Append(acc, Append(cur, "\n")))
  ELSE readlines(Tail(text), Append(cur, Head(text)), acc)

\* The locals of replace_section when the loop starts: ifile holds the lines
\* of the opened file and n counts those the loop has taken; file_lines
\* names the list it is an alias of.
replace_section(text, start_pat, end_pat, new_lines) ==
  [pc |-> "loop", start_pat |-> start_pat, end_pat |-> end_pat, lines |-> new_lines,
   ifile |-> readlines(text, <<>>, <<>>), n |-> 0,
   prefix_lines |-> <<>>, postfix_lines |-> <<>>, file_lines |-> "prefix_lines",
   found_section |-> FALSE, inside_section |-> FALSE]

\* file_lines.append(line)
file_lines_append(f, line) ==
  IF f.file_lines = "prefix_lines"
  THEN [f EXCEPT !.prefix_lines = Append(@, line)]
  ELSE [f EXCEPT !.postfix_lines = Append(@, line)]

\* The test of line 74 with the section never counted as open.
not_found_only(f) == ~f.found_section

\* if end_pat is None: inside_section = False
\* if inside_section or not found_section: raise
could_not_find(f) ==
  (f.end_pat.some /\ f.inside_section) \/ ~f.found_section

\* The lines of the files: a start marker, an end marker and two texts.
StartLine == <<"[", "API", "]", "\n">>

EndLine == <<"[", "/", "API", "]", "\n">>

SectionLines == { StartLine, EndLine, <<"old", "\n">>, <<"text", "\n">> }

\* Most lines of a file.
MaxFile == 5

\* The texts of the files.
SectionFiles == {join(ls) : ls \in UNION {[1..n -> SectionLines] : n \in 0..MaxFile}}

\* The pairs of patterns: the two markers, no end pattern, and a start
\* pattern that the end marker matches as well.
SectionPatterns ==
  { [start_pat |-> <<"[", "API">>, end_pat |-> Some(<<"[", "/">>)],
    [start_pat |-> <<"[", "API">>, end_pat |-> None],
    [start_pat |-> <<"[">>, end_pat |-> Some(<<"[", "/">>)] }

\* The supplied lines.
SuppliedLines == { <<>>, << <<"new", "\n">> >> }

VARIABLES input, chunk, funcs, calls, pc, call, lines, ret, returned,
          types, added, query, disk, frame

vars == <<input, chunk, funcs, calls, pc, call, lines, ret, returned,
          types, added, query, disk, frame>>

sectionVars == <<disk, frame>>

\* replace_section has not been called.
SectionIdle == disk = <<>> /\ frame = [pc |-> "none"]

scanVars == <<input, chunk, funcs, calls, pc>>

harnessVars == <<call, lines, ret, returned>>

typesVars == <<types, added, query>>

\* No look-up has been made.
NoQuery == [op |-> "none"]

\* types = LuaTypes(): nothing added, nothing looked up.
TypesIdle == types = LuaTypes /\ added = <<>> /\ query = NoQuery

\* No call of the grammar entry points is in progress.
HarnessIdle == call = "none" /\ lines = <<>> /\ ret = [ok |-> FALSE] /\ returned = FALSE

\* _parse_lines starts with funcs = [] and chunk = []; input is the part of
\* the file the loop has consumed, calls the line numbers of the declarations
\* LuaFunc.parse_annotation was invoked for, in order.
ScanStart ==
  /\ input = <<>> /\ chunk = <<>> /\ funcs = <<>> /\ calls = <<>> /\ pc = "loop"

Init == ScanStart /\ HarnessIdle /\ TypesIdle /\ SectionIdle

\* if line.startswith("---"): chunk.append(line)
AppendDocLine(l) ==
  /\ pc = "loop" /\ Len(input) < MaxLines
  /\ IsDocLine(l)
  /\ input' = Append(input, l)
  /\ chunk' = Append(chunk, l)
  /\ UNCHANGED <<funcs, calls, pc, harnessVars, typesVars, sectionVars>>

\* The loop without the reset of the chunk.
KeepChunk == chunk' = chunk

\* chunk = []
DropChunk == chunk' = <<>>

\* The outcome of LuaFunc.parse_annotation(m[1] or m[2], chunk) in the loop:
\* the function is appended with raw_annotation = chunk, or the exception
\* leaves _parse_lines.
ParseChunk(r, c) ==
  IF r.ok
  THEN /\ funcs' = Append(funcs, [r.func EXCEPT !.raw_annotation = c])
       /\ DropChunk
       /\ pc' = pc
  ELSE /\ pc' = "raised"
       /\ UNCHANGED <<funcs, chunk>>

\* elif chunk: the first line after a run of doc lines.
EndChunk(l) ==
  /\ pc = "loop" /\ Len(input) < MaxLines
  /\ ~IsDocLine(l) /\ chunk # <<>>
  /\ input' = Append(input, l)
  /\ IF FN_RE(l).ok /\ ~HasTypeTag(chunk)
     THEN /\ calls' = Append(calls, Len(input) + 1)
          /\ ParseChunk(parse_annotation("apidoc", FN_RE(l).name, chunk), chunk)
     ELSE /\ DropChunk
          /\ UNCHANGED <<funcs, calls, pc>>
  /\ UNCHANGED <<harnessVars, typesVars, sectionVars>>

\* A line that is not a doc line while chunk is empty: nothing happens.
SkipLine(l) ==
  /\ pc = "loop" /\ Len(input) < MaxLines
  /\ ~IsDocLine(l) /\ chunk = <<>>
  /\ input' = Append(input, l)
  /\ UNCHANGED <<chunk, funcs, calls, pc, harnessVars, typesVars, sectionVars>>

\* The iterator is exhausted: return funcs.
Return ==
  /\ pc = "loop"
  /\ pc' = "returned"
  /\ UNCHANGED <<input, chunk, funcs, calls, harnessVars, typesVars, sectionVars>>

Next ==
  \/ \E l \in ScanLines : AppendDocLine(l)
  \/ \E l \in ScanLines : EndChunk(l)
  \/ \E l \in ScanLines : SkipLine(l)
  \/ Return

Spec == Init /\ [][Next]_vars

(***************************************************************************)
(* The grammar entry points called on their own, the way the tests call    *)
(* them: LuaFunc.parse_annotation on a block, lua_field on a line.         *)
(***************************************************************************)
InitParse ==
  /\ ScanStart /\ TypesIdle /\ SectionIdle
  /\ ret = [ok |-> FALSE] /\ returned = FALSE
  /\ \/ call = "parse_annotation" /\ lines \in Blocks
     \/ call = "lua_field" /\ lines \in {<<l>> : l \in FieldLines}
     \/ call = "lua_type" /\ lines \in {<<l>> : l \in TypeTexts}
     \/ call = "LuaClass.parse_lines" /\ lines \in ClassBlocks
     \/ call = "LuaAlias.parse_lines" /\ lines \in AliasBlocks

\* LuaFunc.parse_annotation("f", lines)
CallParseAnnotation ==
  /\ call = "parse_annotation" /\ ~returned
  /\ ret' = parse_annotation("parser", <<"f">>, lines)
  /\ returned' = TRUE
  /\ UNCHANGED <<call, lines, scanVars, typesVars, sectionVars>>

\* lua_field.parseString(line, parseAll=True)[0]
CallLuaField ==
  /\ call = "lua_field" /\ ~returned
  /\ ret' = parse_field(lines[1])
  /\ returned' = TRUE
  /\ UNCHANGED <<call, lines, scanVars, typesVars, sectionVars>>

\* lua_type.parseString(text): the canonical text is ret.val.
CallLuaType ==
  /\ call = "lua_type" /\ ~returned
  /\ ret' = lua_type("parser", lines[1], 1)
  /\ returned' = TRUE
  /\ UNCHANGED <<call, lines, scanVars, typesVars, sectionVars>>

\* LuaClass.parse_lines(lines)
CallClassParseLines ==
  /\ call = "LuaClass.parse_lines" /\ ~returned
  /\ ret' = LuaClass_parse_lines(lines)
  /\ returned' = TRUE
  /\ UNCHANGED <<call, lines, scanVars, typesVars, sectionVars>>

\* LuaAlias.parse_lines(lines)
CallAliasParseLines ==
  /\ call = "LuaAlias.parse_lines" /\ ~returned
  /\ ret' = LuaAlias_parse_lines(lines)
  /\ returned' = TRUE
  /\ UNCHANGED <<call, lines, scanVars, typesVars, sectionVars>>

NextParse ==
  \/ CallParseAnnotation
  \/ CallLuaField
  \/ CallLuaType
  \/ CallClassParseLines
  \/ CallAliasParseLines

SpecParse == InitParse /\ [][NextParse]_vars

(***************************************************************************)
(* The symbol table in use: files are added to one LuaTypes and the        *)
(* renderers' look-ups are made on it (vimdoc.py 223-227).                 *)
(***************************************************************************)
InitTypes == ScanStart /\ HarnessIdle /\ TypesIdle /\ SectionIdle

\* types.add_file(filename, file); added is the list of the calls made.
AddFile(filename, file) ==
  /\ Len(added) < MaxAdds
  /\ types' = add_file(types, filename, file)
  /\ added' = Append(added, [filename |-> filename, file |-> file])
  /\ query' = NoQuery
  /\ UNCHANGED <<scanVars, harnessVars, sectionVars>>

\* param.get_subparams(types)
GetSubparams(param) ==
  /\ query' = [op |-> "get_subparams", arg |-> param,
               result |-> get_subparams(param, types)]
  /\ UNCHANGED <<types, added, scanVars, harnessVars, sectionVars>>

\* types.get_enum_values(search_type)
GetEnumValues(search_type) ==
  /\ query' = [op |-> "get_enum_values", arg |-> search_type,
               result |-> get_enum_values(types, search_type)]
  /\ UNCHANGED <<types, added, scanVars, harnessVars, sectionVars>>

NextTypes ==
  \/ \E filename \in TypePaths, file \in TypeFiles : AddFile(filename, file)
  \/ \E param \in QueryParams : GetSubparams(param)
  \/ \E search_type \in QueryTypes : GetEnumValues(search_type)

SpecTypes == InitTypes /\ [][NextTypes]_vars

(***************************************************************************)
(* The specification of replace_section: one step for each line the loop   *)
(* reads, then the raise or the write.                                     *)
(***************************************************************************)
\* replace_section(file, start_pat, end_pat, lines) has opened the file.
InitSection ==
  /\ ScanStart /\ HarnessIdle /\ TypesIdle
  /\ disk \in SectionFiles
  /\ \E pats \in SectionPatterns : \E new_lines \in SuppliedLines :
       frame = replace_section(disk, pats.start_pat, pats.end_pat, new_lines)

\* The loop is at a line: line is the one it reads next.
Reading == frame.pc = "loop" /\ frame.n < Len(frame.ifile)

NextLine == frame.ifile[frame.n + 1]

\* The line matches end_pat, which is given.
MatchesEnd(line) == frame.end_pat.some /\ re_match(frame.end_pat.val, line)

\* inside the section, a line matching end_pat: the section is closed, the
\* line is the first of postfix_lines.
CloseSection ==
  /\ Reading /\ frame.inside_section /\ MatchesEnd(NextLine)
  /\ frame' = [frame EXCEPT !.n = @ + 1,
                            !.inside_section = FALSE,
                            !.file_lines = "postfix_lines",
                            !.postfix_lines = Append(@, NextLine)]
  /\ UNCHANGED <<disk, scanVars, harnessVars, typesVars>>

\* inside the section, any other line: it is dropped.
DropLine ==
  /\ Reading /\ frame.inside_section /\ ~MatchesEnd(NextLine)
  /\ frame' = [frame EXCEPT !.n = @ + 1]
  /\ UNCHANGED <<disk, scanVars, harnessVars, typesVars>>

\* outside the section, a line matching start_pat: the section is open and
\* found, the line is kept.
OpenSection ==
  /\ Reading /\ ~frame.inside_section /\ re_match(frame.start_pat, NextLine)
  /\ frame' = [file_lines_append(frame, NextLine) EXCEPT !.n = @ + 1,
                                                         !.inside_section = TRUE,
                                                         !.found_section = TRUE]
  /\ UNCHANGED <<disk, scanVars, harnessVars, typesVars>>

\* outside the section, any other line: it is kept.
KeepLine ==
  /\ Reading /\ ~frame.inside_section /\ ~re_match(frame.start_pat, NextLine)
  /\ frame' = [file_lines_append(frame, NextLine) EXCEPT !.n = @ + 1]
  /\ UNCHANGED <<disk, scanVars, harnessVars, typesVars>>

\* raise Exception("could not find file section ...")
RaiseNotFound ==
  /\ frame.pc = "loop" /\ frame.n = Len(frame.ifile)
  /\ could_not_find(frame)
  /\ frame' = [frame EXCEPT !.pc = "raised"]
  /\ UNCHANGED <<disk, scanVars, harnessVars, typesVars>>

\* ofile.write("".join(prefix_lines + lines + postfix_lines))
WriteFile ==
  /\ frame.pc = "loop" /\ frame.n = Len(frame.ifile)
  /\ ~could_not_find(frame)
  /\ disk' = join(frame.prefix_lines \o frame.lines \o frame.postfix_lines)
  /\ frame' = [frame EXCEPT !.pc = "done"]
  /\ UNCHANGED <<scanVars, harnessVars, typesVars>>

NextSection ==
  \/ CloseSection
  \/ DropLine
  \/ OpenSection
  \/ KeepLine
  \/ RaiseNotFound
  \/ WriteFile

SpecSection == InitSection /\ [][NextSection]_vars

(***************************************************************************)
(* Properties of the scanner (specification Spec).                         *)
(***************************************************************************)
RECURSIVE DocRunStart(_, _)
\* The first line of the run of doc lines that ends just before line d.
DocRunStart(inp, d) ==
  IF d > 1 /\ IsDocLine(inp[d - 1]) THEN DocRunStart(inp, d - 1) ELSE d

\* The maximal run of consecutive doc lines just before line d.
DocRun(inp, d) == SubSeq(inp, DocRunStart(inp, d), d - 1)

\* C1: scanning never raises because of a malformed annotation block: the
\* scan of a file with a block whose tag parse fails still completes.
C1_ScanNeverRaises == pc # "raised"

\* C4: a chunk of doc lines still pending when the input ends is classified
\* and recorded in the file model, not discarded.
C4_TrailingChunkRecorded ==
  pc = "returned" /\ chunk # <<>>
    => \E k \in DOMAIN funcs : funcs[k].raw_annotation = chunk

\* C5: every function's raw_annotation is exactly the maximal run of doc
\* lines just before its declaration line; runs of two functions share no
\* line; and the pending chunk is always the run of doc lines at the end of
\* the lines read, so any other line resets it.
C5_RawAnnotationIsPrecedingRun ==
  /\ Len(funcs) <= Len(calls)
  /\ \A k \in DOMAIN funcs :
       /\ ~IsDocLine(input[calls[k]])
       /\ funcs[k].raw_annotation # <<>>
       /\ funcs[k].raw_annotation = DocRun(input, calls[k])
  /\ \A j, k \in DOMAIN funcs : j < k => calls[j] < DocRunStart(input, calls[k])
  /\ pc = "loop" => chunk = DocRun(input, Len(input) + 1)

\* A function documented by a two-line run that starts after an earlier line.
C5_Witness ==
  /\ pc = "returned"
  /\ \E k \in DOMAIN funcs :
       /\ Len(funcs[k].raw_annotation) = 2
       /\ calls[k] = 4
       /\ ~IsDocLine(input[1])

\* The tags of a chunk: empty, or with @param or @return among them.
FunctionTags(c) ==
  \/ \A k \in DOMAIN c : At(c[k], 2) \notin TagLexemes
  \/ \E k \in DOMAIN c : At(c[k], 2) \in {"@param", "@return"}

\* C6: the function grammar is invoked on a chunk iff the line after it
\* matches the function-declaration pattern and the chunk's tags are none or
\* include @param/@return; a chunk with tags of other kinds only is not parsed.
C6_GrammarInvokedIff ==
  \A d \in DOMAIN input :
    ~IsDocLine(input[d]) /\ DocRun(input, d) # <<>>
      => (d \in Range(calls)
            <=> FN_RE(input[d]).ok /\ FunctionTags(DocRun(input, d)))

(***************************************************************************)
(* Properties of the grammar entry points (specification SpecParse).       *)
(***************************************************************************)
\* LuaFunc.parse_annotation has returned a Func.
Parsed == returned /\ call = "parse_annotation" /\ ret.ok

BlankLine == <<"---">>

\* Lines that match no tag of the grammar: an unknown tag, a type that is
\* no type.
BadLines == {<<"---", "@foo">>, <<"---", "@param", " ", "w", " ", "foo">>}

\* C2: parsing a block is all-or-nothing: a Func is returned only when the
\* grammar consumed every lexeme of the block, and a line that matches no
\* tag (unless it follows a blank line, where it is read as free text)
\* makes the whole block fail.
C2_AllOrNothing ==
  returned /\ call = "parse_annotation" =>
    /\ ret.ok => annotation("parser", JoinLines(lines)).pos > Len(JoinLines(lines))
    /\ (\E k \in DOMAIN lines :
          lines[k] \in BadLines /\ (k = 1 \/ lines[k - 1] # BlankLine))
         => ~ret.ok

\* A block with an unknown tag between two good tags has failed as a whole.
C2_Witness ==
  /\ returned /\ call = "parse_annotation"
  /\ lines = << <<"---", "@private">>, <<"---", "@foo">>,
                <<"---", "@return", " ", "string">> >>
  /\ ~ret.ok

\* C3: a union with a member that is no type makes the tag fail: no @param
\* or @return is accepted with the matched prefix as its type and the rest,
\* from the "|" on, as its description.
C3_BadUnionMemberFails ==
  Parsed =>
    /\ \A k \in DOMAIN ret.func.params :
         ret.func.params[k].desc = <<>> \/ ret.func.params[k].desc[1] # "|"
    /\ \A k \in DOMAIN ret.func.returns :
         ret.func.returns[k].desc = <<>> \/ ret.func.returns[k].desc[1] # "|"

\* C7: for an accepted block, private iff the block has an @private line and
\* deprecated iff it has an @deprecated line, wherever the line stands.
C7_FlagsIffTag ==
  Parsed =>
    /\ ret.func.private <=> <<"---", "@private">> \in Range(lines)
    /\ ret.func.deprecated <=> <<"---", "@deprecated">> \in Range(lines)

\* The type an entry written with name, "?" and type must get.
ExpectedType(p) == (IF p.opt THEN <<"nil", "|">> ELSE <<>>) \o p.type

\* The parameters and sub-parameters of a Func.
AllParams(f) ==
  Range(f.params) \cup UNION {Range(f.params[k].subparams) : k \in DOMAIN f.params}

\* C8: an entry (@param, sub-parameter, @field) written with "?" after its
\* name gets the type "nil|" + the written type, also when the written type
\* starts with nil|; without "?" it gets exactly the written type; the name
\* never holds the "?".
C8_OptionalPrefix ==
  /\ Parsed =>
       /\ \A p \in AllParams(ret.func) :
            /\ \A sp \in ParamSpecs : p.name = sp.name => p.type = ExpectedType(sp)
            /\ \A sp \in SubSpecs : p.name = sp.name => p.type = ExpectedType(sp)
       /\ \A sp \in ParamSpecs :
            lines = <<ParamLine(sp)>>
              => /\ Len(ret.func.params) = 1
                 /\ ret.func.params[1].name = sp.name
                 /\ ret.func.params[1].type = ExpectedType(sp)
  /\ returned /\ call = "lua_field" =>
       \A f \in FieldSpecs :
         lines = <<FieldLine(f)>>
           => /\ ret.ok
              /\ ret.field.name = Some(f.name)
              /\ ret.field.type = ExpectedType(f)

\* An optional parameter whose written type already starts with nil|.
C8_Witness ==
  /\ Parsed
  /\ \E k \in DOMAIN ret.func.params :
       /\ ret.func.params[k].name = "z"
       /\ ret.func.params[k].type = <<"nil", "|", "nil", "|", "string">>

\* The line numbers of the lines of a block that carry the tag.
TagIdx(ls, tg) == SelectSeq([k \in 1..Len(ls) |-> k], LAMBDA k : At(ls[k], 2) = tg)

\* A doc line whose text starts with a blank.
IsIndented(l) == At(l, 2) = " "

RECURSIVE IndentedRunEnd(_, _)
\* The first line from k on that is not indented.
IndentedRunEnd(ls, k) ==
  IF k <= Len(ls) /\ IsIndented(ls[k]) THEN IndentedRunEnd(ls, k + 1) ELSE k

\* The names written on lines i..j-1, each after its indentation.
NamesOn(ls, i, j) == [k \in 1..(j - i) |-> At(ls[i + k - 1], SkipWs(ls[i + k - 1], 2))]

\* C9: the sub-parameters of a @param are the indented lines that directly
\* follow it, one per line and in order; capture stops at the first line
\* that is not indented.
C9_SubparamsAreIndentedRun ==
  Parsed /\ Len(ret.func.params) = Len(TagIdx(lines, "@param")) =>
    \A j \in DOMAIN ret.func.params :
      [q \in DOMAIN ret.func.params[j].subparams |-> ret.func.params[j].subparams[q].name]
        = NamesOn(lines, TagIdx(lines, "@param")[j] + 1,
                  IndentedRunEnd(lines, TagIdx(lines, "@param")[j] + 1))

\* C10: params and returns hold one entry per @param and per @return line
\* of the block, in the order of the lines.
C10_OnePerTagInOrder ==
  Parsed =>
    /\ [j \in DOMAIN ret.func.params |-> ret.func.params[j].name]
         = [j \in DOMAIN TagIdx(lines, "@param") |-> lines[TagIdx(lines, "@param")[j]][4]]
    /\ [j \in DOMAIN ret.func.returns |-> ret.func.returns[j].type[1]]
         = [j \in DOMAIN TagIdx(lines, "@return") |-> lines[TagIdx(lines, "@return")[j]][4]]

(***************************************************************************)
(* Properties of the symbol table (specification SpecTypes).               *)
(***************************************************************************)
\* get_subparams has just been called.
AskedSubparams == query.op = "get_subparams"

\* get_enum_values has just been called.
AskedEnumValues == query.op = "get_enum_values"

\* The type of a parameter without one leading nil|.
LookupKey(type) ==
  IF Len(type) >= 2 /\ SubSeq(type, 1, 2) = <<"nil", "|">>
  THEN SubSeq(type, 3, Len(type))
  ELSE type

\* C11: get_subparams returns the explicit sub-parameters of the parameter
\* whenever it has any, also when its type names a registered class; the
\* fields of a class are returned only for a parameter without explicit
\* sub-parameters, and the result is never the two lists together.
C11_ExplicitSubparamsWin ==
  AskedSubparams =>
    IF query.arg.subparams # <<>>
    THEN query.result = query.arg.subparams
    ELSE query.result # <<>> => LookupKey(query.arg.type) \in DOMAIN types.classes

\* A parameter with an explicit sub-parameter whose type names a registered
\* class with public fields.
C11_Witness ==
  /\ AskedSubparams
  /\ query.arg.subparams # <<>>
  /\ LookupKey(query.arg.type) \in DOMAIN types.classes
  /\ \E k \in DOMAIN types.classes[LookupKey(query.arg.type)].fields :
       /\ types.classes[LookupKey(query.arg.type)].fields[k].name.some
       /\ ~types.classes[LookupKey(query.arg.type)].fields[k].scope.some
  /\ ~types.classes[LookupKey(query.arg.type)].opaque

\* The indices of the fields of a class that have a name and are public.
PublicNamed(class) ==
  SelectSeq([k \in DOMAIN class.fields |-> k],
            LAMBDA k : /\ class.fields[k].name.some
                       /\ class.fields[k].scope \in {None, Some("public")})

\* The Param entries the expansion of a class must give.
ExpectedExpansion(class) ==
  IF class.opaque THEN <<>>
  ELSE [j \in DOMAIN PublicNamed(class) |->
          [name |-> class.fields[PublicNamed(class)[j]].name.val,
           type |-> class.fields[PublicNamed(class)[j]].type,
           desc |-> class.fields[PublicNamed(class)[j]].desc,
           subparams |-> <<>>]]

\* C12: for a parameter without explicit sub-parameters, the type is looked
\* up after one leading nil| is removed, and the result is the fields of
\* the class that have a name and are public (no scope, or public), in
\* declaration order, each as a Param with the name, type and description
\* of the field; it is empty for an opaque class and for an unknown name.
C12_ClassExpansion ==
  AskedSubparams /\ query.arg.subparams = <<>> =>
    /\ query.result =
         IF LookupKey(query.arg.type) \in DOMAIN types.classes
         THEN ExpectedExpansion(types.classes[LookupKey(query.arg.type)])
         ELSE <<>>
    /\ \A k \in DOMAIN query.result :
         query.result[k].name \notin {"secret", "y", "z"}
    /\ /\ LookupKey(query.arg.type) = <<"test", ".", "Foo">>
       /\ <<"test", ".", "Foo">> \in DOMAIN types.classes
       /\ types.classes[<<"test", ".", "Foo">>] = ClassOf(FooBlock)
       => [k \in DOMAIN query.result |-> query.result[k].name] = <<"pub_name", "x">>
    /\ /\ query.arg.type = <<"nil", "|", "nil", "|", "test", ".", "Foo">>
       /\ <<"nil", "|", "test", ".", "Foo">> \notin DOMAIN types.classes
       => query.result = <<>>

\* An optional parameter typed by the registered class test.Foo, which has
\* private, protected, package and map-style fields, was expanded.
C12_Witness ==
  /\ AskedSubparams
  /\ query.arg.subparams = <<>>
  /\ query.arg.type = <<"nil", "|", "test", ".", "Foo">>
  /\ <<"test", ".", "Foo">> \in DOMAIN types.classes
  /\ types.classes[<<"test", ".", "Foo">>] = ClassOf(FooBlock)
  /\ Len(query.result) = 2

\* "nil|" + name
NilOr(name) == <<"nil", "|">> \o name

\* The pairs declared by KindBlock: 'a' # first, then 'b' without description.
KindPairs ==
  << [value |-> <<"a">>, desc |-> <<"first">>], [value |-> <<"b">>, desc |-> <<>>] >>

\* C13 as stated: for every registered alias name n, get_enum_values(n) and
\* get_enum_values("nil|" + n) return the pairs of that alias in declaration
\* order, with an empty description where the value line had none; for a
\* name that is neither a registered alias nor "nil|" + a registered alias
\* the result is empty.
C13_EnumValuesOfEveryAlias ==
  AskedEnumValues =>
    /\ \A n \in DOMAIN types.aliases :
         query.arg \in {n, NilOr(n)} => query.result = types.aliases[n].values
    /\ /\ query.arg \notin DOMAIN types.aliases
       /\ \A n \in DOMAIN types.aliases : query.arg # NilOr(n)
       => query.result = <<>>

\* C13 amended: for every registered alias name n that does not itself
\* start with nil|, get_enum_values(n) and get_enum_values("nil|" + n)
\* return the pairs of that alias in declaration order, with an empty
\* description where the value line had none; for every name whose text
\* after one leading nil| is removed is not a registered alias, the result
\* is empty.
C13_EnumValuesAfterStrip ==
  AskedEnumValues =>
    /\ \A n \in DOMAIN types.aliases :
         LookupKey(n) = n /\ query.arg \in {n, NilOr(n)}
           => query.result = types.aliases[n].values
    /\ LookupKey(query.arg) \notin DOMAIN types.aliases => query.result = <<>>
    /\ /\ query.arg \in {<<"test", ".", "Kind">>, NilOr(<<"test", ".", "Kind">>)}
       /\ <<"test", ".", "Kind">> \in DOMAIN types.aliases
       /\ types.aliases[<<"test", ".", "Kind">>] = AliasOf(KindBlock)
       => query.result = KindPairs

\* The values of the registered alias test.Kind were asked for under the
\* type nil|test.Kind of an optional parameter.
C13_Witness ==
  /\ AskedEnumValues
  /\ query.arg = NilOr(<<"test", ".", "Kind">>)
  /\ <<"test", ".", "Kind">> \in DOMAIN types.aliases
  /\ types.aliases[<<"test", ".", "Kind">>] = AliasOf(KindBlock)
  /\ query.result = KindPairs

\* The names a list of classes or aliases declares.
NamesOf(items) == {items[k].name : k \in DOMAIN items}

\* The last declaration of the name in a list that declares it.
LastDecl(items, n) ==
  items[CHOOSE k \in DOMAIN items :
          items[k].name = n /\ \A j \in (k + 1)..Len(items) : items[j].name # n]

\* The most recent call of add_file whose file declares the name; kind is
\* "classes" or "aliases".
LastAdd(kind, n) ==
  CHOOSE i \in DOMAIN added :
    /\ n \in NamesOf(added[i].file[kind])
    /\ \A j \in (i + 1)..Len(added) : n \notin NamesOf(added[j].file[kind])

\* An index holds, for every name declared by an added file, the last
\* declaration of the most recently added file that declares it.
LastWriterWins(index, kind) ==
  /\ DOMAIN index = UNION {NamesOf(added[i].file[kind]) : i \in DOMAIN added}
  /\ \A n \in DOMAIN index : index[n] = LastDecl(added[LastAdd(kind, n)].file[kind], n)

\* C15: after any sequence of add_file calls the class index maps each
\* class name to the class of that name from the most recently added file
\* that declares it, within one file to the last declaration of the name,
\* and the alias index likewise; the earlier declaration never stays.
C15_LastWriterWins ==
  /\ LastWriterWins(types.classes, "classes")
  /\ LastWriterWins(types.aliases, "aliases")

\* test.Foo and test.Kind were declared by one file and declared again,
\* differently, by a file added later.
C15_Witness ==
  /\ \E i \in DOMAIN added : \E j \in (i + 1)..Len(added) :
       /\ ClassOf(FooBlock) \in Range(added[i].file.classes)
       /\ ClassOf(FooAgainBlock) \in Range(added[j].file.classes)
       /\ ClassOf(FooBlock) \notin Range(added[j].file.classes)
       /\ AliasOf(KindBlock) \in Range(added[i].file.aliases)
       /\ AliasOf(KindAgainBlock) \in Range(added[j].file.aliases)
       /\ \A k \in (j + 1)..Len(added) :
            added[k].file.classes = <<>> /\ added[k].file.aliases = <<>>
  /\ types.classes[<<"test", ".", "Foo">>] = ClassOf(FooAgainBlock)
  /\ types.aliases[<<"test", ".", "Kind">>] = AliasOf(KindAgainBlock)

RECURSIVE AddAll(_, _)
\* The symbol table after the calls of adds, made in their order on t.
AddAll(t, adds) ==
  IF adds = <<>> THEN t
  ELSE AddAll(add_file(t, Head(adds).filename, Head(adds).file), Tail(adds))

\* The orders in which n calls can be made.
Permutations_(n) ==
  {f \in [1..n -> 1..n] : \A i \in 1..n : \A j \in 1..n : f[i] = f[j] => i = j}

\* The calls made so far have distinct paths and no class name and no alias
\* name is declared twice.
UniqueNames(kind) ==
  /\ \A i \in DOMAIN added : \A j \in DOMAIN added :
       i # j => NamesOf(added[i].file[kind]) \cap NamesOf(added[j].file[kind]) = {}
  /\ \A i \in DOMAIN added :
       Cardinality(NamesOf(added[i].file[kind])) = Len(added[i].file[kind])

DistinctFiles ==
  /\ \A i \in DOMAIN added : \A j \in DOMAIN added :
       i # j => added[i].filename # added[j].filename
  /\ UniqueNames("classes")
  /\ UniqueNames("aliases")

\* C16: when the added files have distinct paths and no class or alias name
\* is declared twice, the symbol table is the same for every order of the
\* add_file calls, and so is the result of every get_subparams and
\* get_enum_values query.
C16_OrderIndependent ==
  DistinctFiles =>
    \A f \in Permutations_(Len(added)) :
      LET reordered == AddAll(LuaTypes, [k \in 1..Len(added) |-> added[f[k]]])
      IN  /\ reordered = types
          /\ AskedSubparams => query.result = get_subparams(query.arg, reordered)
          /\ AskedEnumValues => query.result = get_enum_values(reordered, query.arg)

\* The file that uses test.Foo was added before the file that declares it,
\* and the parameter typed test.Foo was expanded to the fields of the class.
C16_Witness ==
  /\ Len(added) >= 2
  /\ DistinctFiles
  /\ added[1].file.functions # <<>>
  /\ <<"test", ".", "Foo">> \notin NamesOf(added[1].file.classes)
  /\ ClassOf(FooBlock) \in Range(added[2].file.classes)
  /\ AskedSubparams
  /\ query.arg \in Range(added[1].file.functions[1].params)
  /\ query.arg.type = <<"test", ".", "Foo">>
  /\ Len(query.result) = 2

\* Every entry of the index is stored under its own name and is declared by
\* a file of the files map; kind is "classes" or "aliases".
IndexConsistent(index, kind) ==
  \A n \in DOMAIN index :
    /\ index[n].name = n
    /\ \E path \in DOMAIN types.files : index[n] \in Range(types.files[path][kind])

\* C21: after any sequence of add_file calls, the same path added more than
\* once included, every class of the class index and every alias of the
\* alias index is stored under its own name and is declared by a file that
\* the files map holds; no entry of a file replaced under its path stays.
C21_IndexesFollowFiles ==
  /\ IndexConsistent(types.classes, "classes")
  /\ IndexConsistent(types.aliases, "aliases")

(***************************************************************************)
(* Properties of LuaAlias.parse_lines, lua_type, lua_field and             *)
(* LuaClass.parse_lines (specification SpecParse).                         *)
(***************************************************************************)
\* LuaAlias.parse_lines has come to an end, by a return or by an exception.
AliasCalled == returned /\ call = "LuaAlias.parse_lines"

\* C14: LuaAlias.parse_lines does not raise; it returns an alias only when
\* there is at least one line after the @alias line and every such line
\* matches the value pattern, and the alias then holds one value per line;
\* a block with a line that does not match, or without value lines, gives
\* no alias.
C14_AliasAllOrNothing ==
  AliasCalled =>
    /\ ~ret.raised
    /\ ret.alias.some =>
         /\ Len(lines) >= 2
         /\ \A k \in 2..Len(lines) : lines[k] \in ValueLines
         /\ Len(ret.alias.val.values) = Len(lines) - 1
    /\ (Len(lines) = 1 \/ \E k \in 2..Len(lines) : lines[k] \in NoValueLines)
         => ~ret.alias.some


TypeCalled == returned /\ call = "lua_type"

\* The canonical text of a type expression.
Canonical(text) == lua_type("parser", text, 1).val

\* C17: for every type expression accepted by lua_type, the canonical text
\* the parse produces is itself accepted by lua_type and parses to itself
\* again, and the members of a union keep their order and are joined by "|"
\* with no blank around it.
C17_CanonicalRoundTrip ==
  TypeCalled /\ ret.ok =>
    /\ lua_type("parser", ret.val, 1) = Ok(Len(ret.val) + 1, ret.val)
    /\ \A u \in UnionSpecs :
         lines[1] = UnionText(u) =>
           ret.val = Canonical(u.a) \o <<"|">> \o Canonical(u.b)

\* A union written with blanks around the bar and a blank inside its table
\* member was parsed: the canonical text differs from the text.
C17_Witness ==
  /\ TypeCalled
  /\ lines[1] = <<"table", "<", "string", ",", " ", "nil", ">", " ", "|", " ", "nil">>
  /\ ret.ok
  /\ ret.val = <<"table", "<", "string", ",", " ", "nil", ">", "|", "nil">>

FieldCalled == returned /\ call = "lua_field"

\* C18: a dotted identifier used as a type is parsed as one user type that
\* covers the whole dotted name, also when its first segment is one of the
\* keywords nil, string, integer, boolean, number, table or any; the
\* keyword alone is never the type with the rest of the name left over as
\* description.
C18_DottedNameIsOneType ==
  /\ TypeCalled /\ lines[1] \in DottedTexts
       => ret = Ok(Len(lines[1]) + 1, lines[1])
  /\ FieldCalled =>
       \A t \in DottedTexts :
         /\ lines[1] = <<"@field", " ", "x", " ">> \o t
              => ret.ok /\ ret.field.type = t /\ ret.field.desc = <<>>
         /\ lines[1] = <<"@field", " ", "x", " ">> \o t \o <<" ", "desc">>
              => ret.ok /\ ret.field.type = t /\ ret.field.desc = <<"desc">>

\* One form of the field grammar on the whole line s: the form's result f
\* followed by the end of the line and the end of the text.
WholeLine(s, f) ==
  IF f.ok /\ LineEnd(s, f.pos).ok /\ SkipWs(s, LineEnd(s, f.pos).pos) > Len(s)
  THEN [ok |-> TRUE, field |-> f.item]
  ELSE Fail

\* The first of the three forms, in their order, that fits the whole line.
FirstFit(s) ==
  IF ~Literal(s, 1, "@field").ok THEN Fail
  ELSE IF WholeLine(s, field_indexed("parser", s, 2)).ok
       THEN WholeLine(s, field_indexed("parser", s, 2))
  ELSE IF WholeLine(s, field_scoped("parser", s, 2)).ok
       THEN WholeLine(s, field_scoped("parser", s, 2))
  ELSE WholeLine(s, field_named("parser", s, 2, None))

\* C19: every field the lua_field grammar produces has exactly one of name
\* and key_type: the indexed form has no name and a key type, the scoped and
\* the plain form have a name and no key type, the scope is set only by the
\* scoped form, and a line is matched as the first of indexed, scoped and
\* plain that fits the whole line.
C19_NameOrKeyType ==
  FieldCalled =>
    /\ ret = FirstFit(lines[1])
    /\ ret.ok =>
         /\ ret.field.name.some # ret.field.key_type.some
         /\ ret.field.key_type.some <=> At(lines[1], 3) = "["
         /\ ret.field.key_type.some => ~ret.field.scope.some
         /\ ret.field.scope.some =>
              /\ At(lines[1], 3) = ret.field.scope.val
              /\ ret.field.scope.val \in FieldScopes
              /\ At(lines[1], 5) = ret.field.name.val
    /\ \A f \in FieldSpecs :
         lines[1] = FieldLine(f) =>
           /\ ret.ok
           /\ ret.field.name = Some(f.name)
           /\ ret.field.scope = f.scope
           /\ ret.field.key_type = None

\* The line "@field package string any" fits the scoped form and the plain
\* form; it was parsed as the scoped form, the field named string.
C19_Witness ==
  /\ FieldCalled
  /\ lines[1] = <<"@field", " ", "package", " ", "string", " ", "any">>
  /\ ret.ok
  /\ ret.field.scope = Some("package")
  /\ ret.field.name = Some("string")
  /\ ret.field.key_type = None
  /\ WholeLine(lines[1], field_named("parser", lines[1], 2, None)).ok

ClassCalled == returned /\ call = "LuaClass.parse_lines"

\* The @field lines of the class blocks that the field grammar accepts.
GoodFieldLines ==
  {Doc(FieldLine(f)) : f \in ClassFieldSpecs}
    \cup {l \in OtherClassLines : At(l, 2) = "@field" /\ parse_field(Tail(l)).ok}

\* The block is "@class Name" or "@class Name: Parent" followed by one or
\* more @field lines.
HeadAndFields(h) ==
  /\ Len(lines) >= 2
  /\ lines[1] = ClassLine(h.name, h.parent)
  /\ \A k \in 2..Len(lines) : lines[k] \in GoodFieldLines

\* C20: LuaClass.parse_lines on "@class Name" or "@class Name: Parent"
\* followed by one or more @field lines returns a class with that name, the
\* declared parent name as parent (absent when none is written), and one
\* field for every @field line of the block in source order, the
\* non-public ones included; a block with no @field line is rejected.
C20_ClassOfHeadAndFields ==
  ClassCalled =>
    /\ \A h \in ClassHeads :
         HeadAndFields(h) =>
           /\ ret.ok
           /\ ret.class.name = h.name
           /\ ret.class.parent = h.parent
           /\ Len(ret.class.fields) = Len(lines) - 1
           /\ \A k \in 2..Len(lines) :
                /\ ret.class.fields[k - 1] = parse_field(Tail(lines[k])).field
                /\ \A f \in ClassFieldSpecs :
                     lines[k] = Doc(FieldLine(f)) =>
                       /\ ret.class.fields[k - 1].name = Some(f.name)
                       /\ ret.class.fields[k - 1].scope = f.scope
    /\ (\A k \in 1..Len(lines) : At(lines[k], 2) # "@field") => ~ret.ok

\* "@class test.Foo: test.Bar" followed by a private and a plain field was
\* parsed: two fields, the private one first.
C20_Witness ==
  /\ ClassCalled
  /\ HeadAndFields([name |-> <<"test", ".", "Foo">>, parent |-> Some(<<"test", ".", "Bar">>)])
  /\ Len(lines) = 3
  /\ ret.ok
  /\ ret.class.parent = Some(<<"test", ".", "Bar">>)
  /\ Len(ret.class.fields) = 2
  /\ ret.class.fields[1].scope = Some("private")
  /\ ret.class.fields[2].name = Some("x")

(***************************************************************************)
(* Properties of replace_section (specification SpecSection).              *)
(***************************************************************************)
\* The lines of the file before the call.
Original == frame.ifile

\* The first line from k on that matches pat, or one past the last line.
FirstMatch(pat, k) ==
  IF \E i \in k..Len(Original) : re_match(pat, Original[i])
  THEN CHOOSE i \in k..Len(Original) :
         /\ re_match(pat, Original[i])
         /\ \A j \in k..(i - 1) : ~re_match(pat, Original[j])
  ELSE Len(Original) + 1

\* The first line matching start_pat.
FirstStart == FirstMatch(frame.start_pat, 1)

\* The first line after it that matches end_pat.
FirstEnd == FirstMatch(frame.end_pat.val, FirstStart + 1)

\* The file with only the interior of its first section replaced.
FirstSectionReplaced ==
  join(SubSeq(Original, 1, FirstStart)) \o join(frame.lines)
    \o (IF frame.end_pat.some THEN join(SubSeq(Original, FirstEnd, Len(Original)))
        ELSE <<>>)

\* C22: the rewritten file is every original line up to and including the
\* first line matching start_pat, then the supplied lines, then the first
\* following line matching end_pat and every original line after it,
\* unchanged and in order (nothing after the supplied lines when end_pat is
\* None), also when a line after the first end marker matches start_pat.
C22_OnlyFirstSectionChanges ==
  frame.pc = "done" => disk = FirstSectionReplaced

\* replace_section has returned or raised.
SectionOver == frame.pc \in {"done", "raised"}

\* C23: replace_section raises and leaves the file as it was when no line
\* matches start_pat, or when end_pat is given and the section a start
\* match opened is not closed by a line matching end_pat before the end of
\* the file; the file is written only after the whole input has been read
\* and the section was found and closed.
C23_RaiseLeavesFile ==
  /\ frame.pc \in {"loop", "raised"} => disk = join(Original)
  /\ SectionOver /\ FirstStart > Len(Original) => frame.pc = "raised"
  /\ SectionOver /\ frame.end_pat.some /\ FirstStart <= Len(Original)
       /\ FirstEnd > Len(Original) => frame.pc = "raised"
  /\ SectionOver /\ frame.end_pat.some /\ frame.inside_section => frame.pc = "raised"
  /\ frame.pc = "done" =>
       /\ frame.n = Len(Original)
       /\ frame.found_section
       /\ frame.end_pat.some => ~frame.inside_section

\* A start marker was read and kept, no line closed the section, and the
\* call raised with the file as it was.
C23_Witness ==
  /\ frame.pc = "raised"
  /\ frame.end_pat.some
  /\ frame.found_section /\ frame.inside_section
  /\ frame.n = Len(Original) /\ frame.n >= 2
  /\ StartLine \in Range(frame.prefix_lines)
  /\ disk = join(Original)


=============================================================================
